---- MODULE Spec2Model ----
(***************************************************************************)
(* A model of the qcow2 metadata engine of vasi/qcow2: the header          *)
(* (src/header.go), the refcount manager with its free-cluster scanner     *)
(* (src/refcounts.go), the guest mapping (src/unnamed/part_007), the       *)
(* snapshot inventory (src/snapshot.go) and the container facade           *)
(* (src/qcow2.go), over a byte-addressed container (src/eio/binaryio.go).  *)
(* Spec drives a container through Open, Guest and the guest's calls;      *)
(* SpecRc drives a refcount manager through its own interface.             *)
(*                                                                         *)
(* Scale.  The container is modelled byte by byte.  To keep it finite the  *)
(* smallest cluster is 2^4 bytes instead of 2^9; the number of reserved    *)
(* low bits of a refcount-table entry (9 in the source, equal to the       *)
(* smallest cluster_bits) is scaled with it.  Every other layout rule      *)
(* (8-byte table and mapping entries, refcounts of 2^order bits packed     *)
(* big-endian) is kept.  The fixed header does not fit a 16-byte cluster:  *)
(* cluster 0 is kept as a record (dhdr) next to the byte array, and its    *)
(* byte counts are compared with the cluster size times 2^5.               *)
(*                                                                         *)
(* A 64-bit word is kept as its eight big-endian bytes; it is turned into  *)
(* a number only where the source does (offsets), and a value that does    *)
(* not fit the container is mapped to an out-of-range offset, on which     *)
(* every container access fails, as it does in the source.                 *)
(*                                                                         *)
(* A Go exception (exc.Throw) is the field err of the machine record: once *)
(* set, every later step of the same call is skipped.                      *)
(***************************************************************************)
EXTENDS Integers, Sequences, FiniteSets, TLC

\* ------------------------------------------------------------------ bounds
\* Capacity of the container, in clusters.  An access outside it fails.
NumClusters == 24
\* Guest writes per run.
MaxWrites == 2
\* Refcount-manager calls per run of SpecRc.
MaxCalls == 2
\* Largest n of the short runs allocate(n) is asked for in SpecRc.
MaxAlloc == 4
\* A run of clusters long enough to end near the end of what a table of twice
\* the size covers.
LongRun == 9
\* Allocate calls looked ahead when asking whether a cluster can be returned.
MaxLater == 2
NumThreads == 2

\* ------------------------------------------------- program constants
MinClusterBits == 4
MaxClusterBits == 21
ReservedBits == 4
magic == 1363560955
featureNameExtensionID == 1745090647
featureDirty == 1
featureCorrupt == 2
incompatibleKnown == 3
featureBitmaps == 1
autoclearKnown == 1
v2Length == 72
v3Length == 104
noCowByte == 128
compressedByte == 64
zeroBit == 1

\* ------------------------------------------------------------- arithmetic
RECURSIVE Pow2(_)
Pow2(n) == IF n <= 0 THEN 1 ELSE 2 * Pow2(n - 1)

divceil(a, b) == (a + b - 1) \div b

Min2(a, b) == IF a < b THEN a ELSE b

RECURSIVE BitAnd(_, _)
BitAnd(a, b) ==
  IF a = 0 \/ b = 0 THEN 0
  ELSE (IF a % 2 = 1 /\ b % 2 = 1 THEN 1 ELSE 0) + 2 * BitAnd(a \div 2, b \div 2)

\* a &^ b
BitClear(a, b) == a - BitAnd(a, b)

\* An offset no container access can satisfy: a 64-bit value that exceeds the
\* container, or is negative as an int64.  The low byte is kept for the
\* alignment tests.
Huge == Pow2(30)

\* The container holds NumClusters clusters of the smallest size.
CapBytes == NumClusters * Pow2(MinClusterBits)

\* ------------------------------------------------------- 64-bit words
\* PutUint64 of a value v < 2^31 with the given top byte or'ed in.
Word(top, v) ==
  << top, 0, 0, 0,
     (v \div 16777216) % 256, (v \div 65536) % 256, (v \div 256) % 256, v % 256 >>

ZeroWord == Word(0, 0)

\* The low 62 bits of a word as an int64, or Huge + low byte when they do not
\* fit the model's integers.
Low62(w) ==
  IF (w[1] % 64) = 0 /\ w[2] = 0 /\ w[3] = 0 /\ w[4] = 0 /\ w[5] < 64
  THEN w[5] * 16777216 + w[6] * 65536 + w[7] * 256 + w[8]
  ELSE Huge + w[8]

\* int64(uint64 word): negative when bit 63 is set.
AsInt64(w) ==
  IF w[1] >= 128 THEN 0 - 1
  ELSE IF w[1] = 0 THEN Low62(w) ELSE Huge + w[8]

\* --------------------------------------------------------------- machine
\* The state a call works on: the container bytes, the header cluster, the
\* in-memory header, the free-cluster scanner, the pending exception, the
\* value returned by the last step, and the container accesses made so far
\* by the calling goroutine (writes as <<offset, length>>, reads counted).
Throw(m, e) == IF m.err # "" THEN m ELSE [m EXCEPT !.err = e]

Ret(m, v) == IF m.err # "" THEN m ELSE [m EXCEPT !.ret = v]

Failed(m) == m.err # ""

clusterSize(h) == Pow2(h.v2.ClusterBits)

InContainer(off, n) == off >= 0 /\ off + n <= CapBytes

\* BinaryIO.ReadAt: ret is the byte slice read.
ReadAt(m, off, n) ==
  IF Failed(m) THEN m
  ELSE IF ~InContainer(off, n) THEN Throw([m EXCEPT !.nr = @ + 1], "IoFailure")
  ELSE [m EXCEPT !.nr = @ + 1, !.ret = [i \in 1..n |-> m.disk[off + i - 1]]]

\* BinaryIO.WriteAt
WriteAt(m, off, buf) ==
  IF Failed(m) THEN m
  ELSE IF ~InContainer(off, Len(buf))
    THEN Throw([m EXCEPT !.io = Append(@, <<off, Len(buf)>>)], "IoFailure")
  ELSE [m EXCEPT
          !.io = Append(@, <<off, Len(buf)>>),
          !.disk = [p \in DOMAIN m.disk |->
                      IF p >= off /\ p < off + Len(buf) THEN buf[p - off + 1]
                      ELSE m.disk[p]]]

\* BinaryIO.ReadUint64: ret is the eight bytes of the word.
ReadUint64(m, off) == ReadAt(m, off, 8)

\* BinaryIO.WriteUint64
WriteUint64(m, off, w) == WriteAt(m, off, w)

\* BinaryIO.Zero: one WriteAt per buffer; a cluster of the model is smaller
\* than the 32 KiB buffer, so a call is one write.
Zero(m, off, count) ==
  IF count <= 0 THEN m ELSE WriteAt(m, off, [i \in 1..count |-> 0])

\* A Copy that leaves the destination as it was.
CopyNone(m, dst, src, count) == m

\* BinaryIO.Copy: read then write, one buffer.
Copy(m, dst, src, count) ==
  IF count <= 0 THEN m
  ELSE LET r == ReadAt(m, src, count)
       IN  IF Failed(r) THEN r ELSE WriteAt(r, dst, r.ret)

\* A call of one function of the program by another is written
\* call("f", m, <<arguments>>): f applied to the machine m and the arguments.
\* The table of the functions is the definition of call, after the last of
\* them.
RECURSIVE call(_, _, _)

\* ---------------------------------------------------------------- header
\* The header cluster on disk: the v2 block, then the chunks that follow it
\* in file order: the v3 block ("v3"), extra header bytes ("extra"), header
\* extensions ("ext") and the terminating zero id ("end").
NoV3 ==
  [IncompatibleFeatures |-> 0, CompatibleFeatures |-> 0, AutoclearFeatures |-> 0,
   RefcountOrder |-> 0, HeaderLength |-> 0]

NilHeader ==
  [v2 |-> [Magic |-> 0, Version |-> 0, BackingFileOffset |-> 0, BackingFileSize |-> 0,
           ClusterBits |-> 0, Size |-> 0, CryptMethod |-> 0, L1Size |-> 0,
           L1TableOffset |-> 0, RefcountTableOffset |-> 0, RefcountTableClusters |-> 0,
           NbSnapshots |-> 0, SnapshotsOffset |-> 0],
   v3 |-> NoV3, extraHeader |-> <<>>, extensions |-> <<>>, featureNames |-> <<>>]

pad8(n) == divceil(n, 8) * 8

\* Bytes a chunk occupies in the header cluster.
ChunkSize(c) ==
  CASE c.t = "v3" -> 32
    [] c.t = "extra" -> Len(c.b)
    [] c.t = "ext" -> 8 + pad8(Len(c.data))
    [] OTHER -> 8

RECURSIVE ChunksSize(_)
ChunksSize(cs) == IF cs = <<>> THEN 0 ELSE ChunkSize(Head(cs)) + ChunksSize(Tail(cs))

\* Bytes of the header cluster a header of this cluster size may use.
HeaderRoom(h) == clusterSize(h) * 32

\* The extension map as the sequence of its <<id, data>> pairs; put(id, data)
\* replaces the data of an id already present, as the Go map does.
ExtPut(exts, id, data) ==
  IF \E i \in 1..Len(exts) : exts[i][1] = id
  THEN [i \in 1..Len(exts) |-> IF exts[i][1] = id THEN <<id, data>> ELSE exts[i]]
  ELSE Append(exts, <<id, data>>)

\* headerImpl.readExtensions over the chunks that follow the fixed header;
\* pos is the reader's position.  The bytes of a v3 block met here (a
\* version 2 file whose header was rewritten) start with the high half of
\* IncompatibleFeatures, which is 0: the terminating id.
RECURSIVE readExtensions(_, _, _, _)
readExtensions(h, chunks, pos, exts) ==
  IF chunks = <<>> \/ Head(chunks).t # "ext" THEN [err |-> "", exts |-> exts]
  ELSE LET c == Head(chunks)
       IN  IF Len(c.data) > HeaderRoom(h) - (pos + 8)
           THEN [err |-> "ExtensionTooLong", exts |-> exts]
           ELSE readExtensions(h, Tail(chunks), pos + ChunkSize(c),
                               ExtPut(exts, c.id, c.data))

ExtData(exts, id) ==
  IF \E i \in 1..Len(exts) : exts[i][1] = id
  THEN (CHOOSE e \in {exts[i] : i \in 1..Len(exts)} : e[1] = id)[2]
  ELSE <<>>

\* headerImpl.parseFeatureNames: 48-byte records (type, bit, name).
parseFeatureNames(exts) ==
  LET data == ExtData(exts, featureNameExtensionID)
  IN  [k \in 1..(Len(data) \div 48) |->
         [ftype |-> data[48 * (k - 1) + 1], bit |-> data[48 * (k - 1) + 2],
          name |-> SubSeq(data, 48 * (k - 1) + 3, 48 * k)]]

\* A check that lets every feature bit through.
checkIncompatibleFeaturesNone(h) == ""

\* headerImpl.checkIncompatibleFeatures
checkIncompatibleFeatures(h) ==
  IF BitClear(h.v3.IncompatibleFeatures, incompatibleKnown) = 0 THEN ""
  ELSE "UnsupportedFeature"

\* headerImpl.read: the header decoded from the header cluster, or the error.
headerRead(d) ==
  LET v2 == d.v2
      h0 == [NilHeader EXCEPT !.v2 = v2]
      cs == clusterSize(h0)
      guestBlocks == divceil(v2.Size, cs)
      l1Entries == divceil(guestBlocks, cs \div 8)
      isV2 == v2.Version = 2
      hasV3 == d.body # <<>> /\ Head(d.body).t = "v3"
      v3 == IF isV2
            THEN [NoV3 EXCEPT !.RefcountOrder = 4, !.HeaderLength = v2Length]
            ELSE IF hasV3 THEN Head(d.body).v ELSE NoV3
      rest1 == IF ~isV2 /\ hasV3 THEN Tail(d.body) ELSE d.body
      pos == IF isV2 THEN v2Length ELSE v3Length
      diff == v3.HeaderLength - pos
      hasExtra == rest1 # <<>> /\ Head(rest1).t = "extra"
      extra == IF diff > 0 /\ hasExtra THEN Head(rest1).b ELSE <<>>
      rest2 == IF diff > 0 /\ hasExtra THEN Tail(rest1) ELSE rest1
      h1 == [h0 EXCEPT !.v3 = v3, !.extraHeader = extra]
      ex == readExtensions(h1, rest2, pos + Len(extra), <<>>)
      h2 == [h1 EXCEPT !.extensions = ex.exts,
                       !.featureNames = parseFeatureNames(ex.exts)]
      e == CASE v2.BackingFileOffset # 0 -> "UnsupportedFeature"
             [] v2.CryptMethod # 0 -> "UnsupportedFeature"
             [] l1Entries > v2.L1Size -> "TooFewL1Entries"
             [] v2.L1TableOffset = 0 -> "MissingTable"
             [] v2.L1TableOffset % cs # 0 -> "MisalignedTable"
             [] v2.RefcountTableOffset % cs # 0 -> "MisalignedTable"
             [] v2.RefcountTableClusters = 0 \/ v2.RefcountTableOffset = 0 -> "MissingTable"
             [] v2.SnapshotsOffset % cs # 0 -> "MisalignedTable"
             [] ~isV2 /\ ~hasV3 -> "ShortRead"
             [] ~isV2 /\ BitAnd(v3.IncompatibleFeatures, featureCorrupt) # 0
                  -> "UnsupportedFeature"
             [] ~isV2 /\ BitAnd(v3.IncompatibleFeatures, featureDirty) # 0
                  -> "UnsupportedFeature"
             [] ~isV2 /\ (v3.RefcountOrder = 0 \/ v3.RefcountOrder > 6) -> "BadRefcountOrder"
             [] diff < 0 -> "HeaderTooLong"
             [] diff > 0 /\ Len(extra) # diff -> "ShortRead"
             [] ex.err # "" -> ex.err
             [] Len(ExtData(ex.exts, featureNameExtensionID)) % 48 # 0 -> "ShortRead"
             [] OTHER -> checkIncompatibleFeatures(h2)
  IN  [err |-> e, h |-> h2]

\* An open that ends with autoclear.
headerParsedClearing(m, r) ==
  IF r.err # "" THEN Throw(m, r.err) ELSE call("autoclear", [m EXCEPT !.hdr = r.h], <<>>)

\* The end of headerImpl.open: r is what headerImpl.read made of the cluster.
headerParsed(m, r) == IF r.err # "" THEN Throw(m, r.err) ELSE [m EXCEPT !.hdr = r.h]

\* headerImpl.open: three probe reads (magic, version, cluster bits), then
\* the whole header through a reader bounded by the first cluster.  It makes
\* no container write.
headerOpen(m) ==
  IF m.dhdr.v2.Magic # magic THEN Throw([m EXCEPT !.nr = @ + 3], "BadMagic")
  ELSE IF m.dhdr.v2.Version < 2 \/ m.dhdr.v2.Version > 3
    THEN Throw([m EXCEPT !.nr = @ + 3], "UnsupportedVersion")
  ELSE IF m.dhdr.v2.ClusterBits < MinClusterBits \/ m.dhdr.v2.ClusterBits > MaxClusterBits
    THEN Throw([m EXCEPT !.nr = @ + 3], "BadClusterBits")
  ELSE headerParsed([m EXCEPT !.nr = @ + 4], headerRead(m.dhdr))

\* The chunks headerImpl.write serialises after the v2 block: the v3 block
\* whatever the version, the extra header, every extension, the zero id.
WrittenBody(h) ==
  <<[t |-> "v3", v |-> h.v3]>>
  \o (IF h.extraHeader # <<>> THEN <<[t |-> "extra", b |-> h.extraHeader]>> ELSE <<>>)
  \o [i \in 1..Len(h.extensions) |->
        [t |-> "ext", id |-> h.extensions[i][1], data |-> h.extensions[i][2]]]
  \o <<[t |-> "end"]>>

\* A write of the header that leaves the autoclear bits as they are.
headerWriteUnmasked(m) ==
  IF Failed(m) THEN m
  ELSE IF v2Length + ChunksSize(WrittenBody(m.hdr)) > HeaderRoom(m.hdr)
    THEN Throw(m, "HeaderTooLarge")
  ELSE [m EXCEPT !.dhdr = [v2 |-> m.hdr.v2, body |-> WrittenBody(m.hdr)],
                 !.io = Append(@, <<0, v2Length + ChunksSize(WrittenBody(m.hdr))>>)]

\* headerImpl.write: mask the autoclear bits in memory, serialise, check the
\* size, commit with one WriteAt at offset 0.
headerWrite(m) ==
  IF Failed(m) THEN m
  ELSE LET h == [m.hdr EXCEPT !.v3.AutoclearFeatures = BitAnd(@, autoclearKnown)]
           body == WrittenBody(h)
           size == v2Length + ChunksSize(body)
           m1 == [m EXCEPT !.hdr = h]
       IN  IF size > HeaderRoom(h) THEN Throw(m1, "HeaderTooLarge")
           ELSE [m1 EXCEPT !.dhdr = [v2 |-> h.v2, body |-> body],
                           !.io = Append(@, <<0, size>>)]

\* An autoclear that never writes.
autoclearNever(m) == m

\* headerImpl.autoclear
autoclear(m) ==
  IF Failed(m) THEN m
  ELSE IF BitClear(m.hdr.v3.AutoclearFeatures, autoclearKnown) = 0 THEN m
  ELSE call("headerWrite", m, <<>>)

\* A setRefcountTable that keeps the old table.
keepRefcountTable(m, offset, size) == m

\* headerImpl.setRefcountTable
setRefcountTable(m, offset, size) ==
  IF Failed(m) THEN m
  ELSE call("headerWrite", [m EXCEPT !.hdr.v2.RefcountTableOffset = offset,
                             !.hdr.v2.RefcountTableClusters = size], <<>>)

\* Accessors of the in-memory header.
refcountOffset(m) == m.hdr.v2.RefcountTableOffset
refcountClusters(m) == m.hdr.v2.RefcountTableClusters
refcountBits(m) == Pow2(m.hdr.v3.RefcountOrder)
l1Offset(m) == m.hdr.v2.L1TableOffset
size(m) == m.hdr.v2.Size
CS(m) == clusterSize(m.hdr)

\* -------------------------------------------------------------- refcounts
\* refcountsImpl.bits
bits(m) == refcountBits(m)

\* refcountsImpl.blockEntries
blockEntries(m) == (CS(m) * 8) \div bits(m)

\* refcountsImpl.tableOffset
tableOffset(m, idx) == 8 * (idx \div blockEntries(m))

\* refcountsImpl.max
max(m) == refcountClusters(m) * (CS(m) \div 8) * blockEntries(m)

\* refcountsImpl.ioInfo
ioInfo(m, block, count) ==
  LET offBits == bits(m) * count
  IN  [offBits |-> offBits, fileOff |-> block + offBits \div 8,
       bufSize |-> divceil(bits(m), 8)]

\* One step of the big-endian accumulation; a value that does not fit the
\* model's integers is kept as Huge + its low byte.
shiftIn(hi, b) == IF hi >= Huge \div 256 THEN Huge + b ELSE hi * 256 + b

RECURSIVE BigEndian(_, _)
BigEndian(buf, n) == IF n = 0 THEN 0 ELSE shiftIn(BigEndian(buf, n - 1), buf[n])

\* A readBuf that does not shift.
readBufUnshifted(b, buf, offBits) ==
  IF b >= 32 THEN BigEndian(buf, divceil(b, 8)) ELSE BigEndian(buf, divceil(b, 8)) % Pow2(b)

\* refcountsImpl.readBuf: big-endian value of the buffer, shifted right by
\* offBits mod 8 and masked to the refcount width (a mask of 32 or 64 bits
\* keeps the whole value).
readBuf(b, buf, offBits) ==
  IF b >= 32 THEN BigEndian(buf, divceil(b, 8))
  ELSE (BigEndian(buf, divceil(b, 8)) \div Pow2(offBits % 8)) % Pow2(b)

\* refcountsImpl.read: ret is the refcount.
rcRead(m, block, count) ==
  LET i == ioInfo(m, block, count)
      r == ReadAt(m, i.fileOff, i.bufSize)
  IN  IF Failed(r) THEN r ELSE Ret(r, readBuf(bits(m), r.ret, i.offBits))

RECURSIVE PutBigEndian(_, _)
PutBigEndian(v, n) == IF n = 0 THEN <<>> ELSE Append(PutBigEndian(v \div 256, n - 1), v % 256)

\* refcountsImpl.write
rcWrite(m, block, count, rc) ==
  IF Failed(m) THEN m
  ELSE LET i == ioInfo(m, block, count)
       IN  IF bits(m) < 8
           THEN LET r == ReadAt(m, i.fileOff, i.bufSize)
                    shift == Pow2(i.offBits % 8)
                    width == Pow2(bits(m))
                    old == r.ret[1]
                    slot == (old \div shift) % width
                    new == old - slot * shift + (rc % width) * shift
                IN  IF Failed(r) THEN r ELSE WriteAt(r, i.fileOff, <<new>>)
           ELSE WriteAt(m, i.fileOff, PutBigEndian(rc, i.bufSize))

\* refcountsImpl.validateTableEntry: the error, or "".
validateTableEntry(m, w) ==
  IF w[8] % Pow2(ReservedBits) # 0 THEN "BadRefcountEntry"
  ELSE IF (w[6] * 65536 + w[7] * 256 + w[8]) % CS(m) # 0 THEN "BadRefcountEntry"
  ELSE ""

\* refcountsImpl.readTableEntry: ret is the block offset as an int64.
readTableEntry(m, tableOff) ==
  LET r == ReadUint64(m, refcountOffset(m) + tableOff)
  IN  IF Failed(r) THEN r
      ELSE IF validateTableEntry(m, r.ret) # "" THEN Throw(r, validateTableEntry(m, r.ret))
      ELSE Ret(r, AsInt64(r.ret))

\* The rcOp closures of refcount, increment and decrement: the new refcount,
\* or the error thrown.
rcOpGet(m, rc, missing) == [err |-> "", rc |-> IF missing THEN 0 ELSE rc]

\* 1<<bits - 1; for 32 and 64 bits it is beyond every refcount of the model.
maxRefcount(m) == IF bits(m) < 32 THEN Pow2(bits(m)) - 1 ELSE Huge + (Huge - 1)

rcOpInc(m, rc, missing) ==
  IF missing \/ rc = 0 THEN [err |-> "UnderflowOrUnallocated", rc |-> 0]
  ELSE IF rc = maxRefcount(m) THEN [err |-> "RefcountAtMax", rc |-> rc]
  ELSE [err |-> "", rc |-> rc + 1]

rcOpDec(m, rc, missing) ==
  IF missing \/ rc = 0 THEN [err |-> "UnderflowOrUnallocated", rc |-> 0]
  ELSE [err |-> "", rc |-> rc - 1]

rcOp(m, op, rc, missing) ==
  CASE op = "get" -> rcOpGet(m, rc, missing)
    [] op = "inc" -> rcOpInc(m, rc, missing)
    [] OTHER -> rcOpDec(m, rc, missing)

\* The first test of refcountOp: is the table slot of idx outside the table?
BeyondTable(m, idx) == tableOffset(m, idx) > CS(m) * refcountClusters(m)

\* The end of refcountOp: res is what the rcOp closure answered.
rcOpDone(x, res) == IF res.err # "" THEN Throw(x, res.err) ELSE Ret(x, res.rc)

\* refcountOp on a cluster that has no refcount block or a refcount of 0.
rcOpMissing(x, op) == rcOpDone(x, rcOp(x, op, 0, TRUE))

\* refcountOp once the closure answered res for the refcount r.ret read at
\* slot count of block: the write happens only when the refcount changes.
rcOpStore(r, block, count, res) ==
  IF res.err # "" THEN Throw(r, res.err)
  ELSE Ret(IF res.rc # r.ret THEN call("rcWrite", r, <<block, count, res.rc>>) ELSE r, res.rc)

\* refcountOp once the refcount was read (r.ret).
rcOpRead(r, block, count, op) ==
  IF Failed(r) THEN r
  ELSE IF r.ret = 0 THEN rcOpMissing(r, op)
  ELSE rcOpStore(r, block, count, rcOp(r, op, r.ret, FALSE))

\* refcountOp once the table entry was read (e.ret).
rcOpEntry(e, count, op) ==
  IF Failed(e) THEN e
  ELSE IF e.ret = 0 THEN rcOpMissing(e, op)
  ELSE rcOpRead(call("rcRead", e, <<e.ret, count>>), e.ret, count, op)

\* refcountsImpl.refcountOp: ret is the refcount returned.
refcountOp(m, idx, op) ==
  IF Failed(m) THEN m
  ELSE IF BeyondTable(m, idx) THEN rcOpMissing(m, op)
  ELSE rcOpEntry(call("readTableEntry", m, <<tableOffset(m, idx)>>),
                 idx % blockEntries(m), op)

refcount(m, idx) == call("refcountOp", m, <<idx, "get">>)
increment(m, idx) == call("refcountOp", m, <<idx, "inc">>)
decrement(m, idx) == call("refcountOp", m, <<idx, "dec">>)

\* The refcount of idx as the current table gives it, for the properties:
\* 0 when it cannot be read.
RefcountRead(r) == IF Failed(r) THEN 0 ELSE r.ret

RefcountOf(m, idx) == RefcountRead(refcount([m EXCEPT !.err = ""], idx))

\* ------------------------------------------------- free-cluster scanner
\* The goroutines of findFreeClusters and fastScan.  scan.phase is "idle"
\* before refcountsImpl.open, "fast" while the first free cluster is looked
\* for with fastScan, "slow" while refcount(i) is probed for increasing i,
\* and "dead" once the goroutine threw and the channel is closed.
\* scan.pending is the cluster the goroutine is blocked sending (-1: none);
\* scan.cursor is the next index it will probe.
\* The goroutine reads the container and the in-memory header whenever it is
\* scheduled: its reads see the state of the moment ScanRun is applied.
Bytes(m, off, n) == [i \in 1..n |-> m.disk[off + i - 1]]

Min(S) == CHOOSE x \in S : \A y \in S : x <= y

\* A scan that takes only the clusters without a refcount block as free.
fastScanEntryUnblocked(m, ti) ==
  LET w == Bytes(m, refcountOffset(m) + 8 * ti, 8)
      bad == validateTableEntry(m, w)
      entry == AsInt64(w)
  IN  IF bad # "" THEN [err |-> bad, first |-> -1]
      ELSE IF entry = 0 THEN [err |-> "", first |-> 0]
      ELSE IF ~InContainer(entry, CS(m)) THEN [err |-> "IoFailure", first |-> -1]
      ELSE [err |-> "", first |-> 0 - 1]

\* One table entry of fastScan(pipe, false): the first index of the block
\* whose refcount is 0 (-1: none), or the error thrown.
fastScanEntry(m, ti) ==
  LET w == Bytes(m, refcountOffset(m) + 8 * ti, 8)
      bad == validateTableEntry(m, w)
      entry == AsInt64(w)
      be == blockEntries(m)
      rcAt(i) == readBuf(bits(m), Bytes(m, entry + (i * bits(m)) \div 8, divceil(bits(m), 8)),
                         i * bits(m))
      zeros == {i \in 0..(be - 1) : rcAt(i) = 0}
  IN  IF bad # "" THEN [err |-> bad, first |-> -1]
      ELSE IF entry = 0 THEN [err |-> "", first |-> 0]
      ELSE IF ~InContainer(entry, CS(m)) THEN [err |-> "IoFailure", first |-> -1]
      ELSE [err |-> "", first |-> IF zeros = {} THEN -1 ELSE Min(zeros)]

\* fastScan consumed by findFreeClusters up to the first refcount 0: the
\* index the probing starts from (the last index of the table when every
\* refcount is in use), or the error thrown.
RECURSIVE fastScanFrom(_, _)
fastScanNext(m, ti, e) ==
  IF e.err # "" THEN [err |-> e.err, idx |-> 0 - 1]
  ELSE IF e.first # 0 - 1 THEN [err |-> "", idx |-> ti * blockEntries(m) + e.first]
  ELSE fastScanFrom(m, ti + 1)

fastScanFrom(m, ti) ==
  IF ti >= (CS(m) * refcountClusters(m)) \div 8
  THEN [err |-> "", idx |-> ((CS(m) * refcountClusters(m)) \div 8) * blockEntries(m) - 1]
  ELSE fastScanNext(m, ti, fastScanEntry(m, ti))

fastScan(m) ==
  IF ~InContainer(refcountOffset(m), CS(m) * refcountClusters(m))
  THEN [err |-> "IoFailure", idx |-> 0 - 1]
  ELSE fastScanFrom(m, 0)

\* One table entry of fastScan(pipe, true), which is refcountsImpl.used: the
\* <<cluster, refcount>> pairs sent for it, or the error thrown.  An entry
\* that is 0 is skipped; every slot of a block is sent.
usedEntry(m, ti) ==
  LET w == Bytes(m, refcountOffset(m) + 8 * ti, 8)
      bad == validateTableEntry(m, w)
      entry == AsInt64(w)
      be == blockEntries(m)
      rcAt(i) == readBuf(bits(m), Bytes(m, entry + (i * bits(m)) \div 8, divceil(bits(m), 8)),
                         i * bits(m))
  IN  IF bad # "" THEN [err |-> bad, items |-> <<>>]
      ELSE IF entry = 0 THEN [err |-> "", items |-> <<>>]
      ELSE IF ~InContainer(entry, CS(m)) THEN [err |-> "IoFailure", items |-> <<>>]
      ELSE [err |-> "", items |-> [i \in 1..be |-> <<ti * be + i - 1, rcAt(i - 1)>>]]

\* The table entries ti, ti+1, ...; sent is what the channel carried so far.
RECURSIVE usedFrom(_, _, _)
usedNext(m, ti, sent, e) ==
  IF e.err # "" THEN [err |-> e.err, items |-> sent]
  ELSE usedFrom(m, ti + 1, sent \o e.items)

usedFrom(m, ti, sent) ==
  IF ti >= (CS(m) * refcountClusters(m)) \div 8 THEN [err |-> "", items |-> sent]
  ELSE usedNext(m, ti, sent, usedEntry(m, ti))

\* refcountsImpl.used, read to the end of its channel.
used(m) ==
  IF ~InContainer(refcountOffset(m), CS(m) * refcountClusters(m))
  THEN [err |-> "IoFailure", items |-> <<>>]
  ELSE usedFrom(m, 0, <<>>)

\* The loop of findFreeClusters from index i: the first i whose refcount
\* reads 0, or the error thrown by refcount(i).
RECURSIVE probeFrom(_, _)
probed(m, i, r) ==
  IF Failed(r) THEN [err |-> r.err, idx |-> 0 - 1]
  ELSE IF r.ret = 0 THEN [err |-> "", idx |-> i]
  ELSE probeFrom(m, i + 1)

probeFrom(m, i) == probed(m, i, refcount([m EXCEPT !.err = ""], i))

\* The goroutine after its exception: the channel is closed.
scanDied(m) == [m EXCEPT !.scan = [phase |-> "dead", cursor |-> 0, pending |-> 0 - 1]]

\* The goroutine blocked sending the cluster found by the probing.
scanFound(m, p) ==
  IF p.err # "" THEN scanDied(m)
  ELSE [m EXCEPT !.scan = [phase |-> "slow", cursor |-> p.idx + 1, pending |-> p.idx]]

scanStarted(m, f) == IF f.err # "" THEN scanDied(m) ELSE scanFound(m, probeFrom(m, f.idx))

\* The scanner goroutine runs until it blocks on the channel send (or dies).
ScanRun(m) ==
  IF m.scan.phase \in {"idle", "dead"} \/ m.scan.pending # 0 - 1 THEN m
  ELSE scanStarted(m, IF m.scan.phase = "fast" THEN fastScan(m)
                      ELSE [err |-> "", idx |-> m.scan.cursor])

\* refcountsImpl.open: a new goroutine, which starts with fastScan.
rcOpen(m) == [m EXCEPT !.scan = [phase |-> "fast", cursor |-> 0, pending |-> 0 - 1]]

\* The hand-over of the pending cluster; after it the goroutine either runs
\* ahead at once (m.eager) or stays unscheduled until the next receive.
handOver(a, eager) ==
  IF a.scan.phase # "slow" THEN Ret(a, 0 - 1)
  ELSE IF eager THEN call("ScanRun", [a EXCEPT !.ret = a.scan.pending, !.scan.pending = 0 - 1], <<>>)
  ELSE [a EXCEPT !.ret = a.scan.pending, !.scan.pending = 0 - 1]

\* A receive from the freeClusters channel: ret is the cluster, or -1 when
\* the channel is closed.  The scanner computes the value at the latest now.
Recv(m) == IF Failed(m) THEN m ELSE handOver(call("ScanRun", m, <<>>), m.eager)

\* The run-extension test of findFreeSequence.
continuesRange(count, start, b) == count > 0 \/ start + count = b

\* refcountsImpl.findFreeSequence: ret is the start of the run.  r is the
\* receive of the next free cluster.
RECURSIVE findFreeSequenceLoop(_, _, _, _)
findFreeSequenceNext(r, n, count, start) ==
  IF Failed(r) THEN r
  ELSE IF r.ret = 0 - 1 THEN Throw(r, "PipelineFailure")
  ELSE IF continuesRange(count, start, r.ret)
    THEN (IF count + 1 = n THEN Ret(r, start) ELSE findFreeSequenceLoop(r, n, count + 1, start))
  ELSE (IF 1 = n THEN r ELSE findFreeSequenceLoop(r, n, 1, r.ret))

findFreeSequenceLoop(m, n, count, start) ==
  findFreeSequenceNext(call("Recv", m, <<>>), n, count, start)

findFreeSequence(m, n) == findFreeSequenceLoop(m, n, 0, 0)

\* ------------------------------------------------------------ allocation
\* The table size and block count growTable settles on, doubling from ts.
RECURSIVE growSize(_, _, _)
growSize(m, newTableStart, ts) ==
  LET tableSize == ts * 2
      pre == newTableStart % blockEntries(m)
      newBlocks == (pre + tableSize - 1) \div (blockEntries(m) - 1) + 1
      maxOffset == tableSize * CS(m)
  IN  IF tableOffset(m, newTableStart + tableSize + newBlocks) <= maxOffset
      THEN [tableSize |-> tableSize, newBlocks |-> newBlocks]
      ELSE growSize(m, newTableStart, tableSize)

\* blockOff of growTable in round b of the loop: the entry of the block of
\* newTableStart, and 8 more each round.
blockOffAt(m, newTableStart, b) == tableOffset(m, newTableStart) + 8 * b

\* "Create the new blocks, and put them in the table" for b, b+1, ...
RECURSIVE growBlocks(_, _, _, _, _)
growBlocks(m, b, newBlocks, blockBase, newTableStart) ==
  IF Failed(m) \/ b >= newBlocks THEN m
  ELSE LET blockPos == (blockBase + b) * CS(m)
           blockOff == blockOffAt(m, newTableStart, b)
           z == Zero(m, blockPos, CS(m))
           w == WriteUint64(z, newTableStart * CS(m) + blockOff, Word(0, blockPos))
       IN  growBlocks(w, b + 1, newBlocks, blockBase, newTableStart)

\* The slot growTable starts marking from.
newClusterOffset0(m, newTableStart) == newTableStart % CS(m)

\* "Set refcounts in the new blocks" for b, b+1, ...
RECURSIVE growRefs(_, _, _, _, _)
growRefs(m, b, n, blockBase, newClusterOffset) ==
  IF Failed(m) \/ b >= n THEN m
  ELSE LET newBlock == blockBase + newClusterOffset \div blockEntries(m)
           w == call("rcWrite", m, <<newBlock * CS(m), newClusterOffset % blockEntries(m), 1>>)
       IN  growRefs(w, b + 1, n, blockBase, newClusterOffset + 1)

\* "Deref the old table"
RECURSIVE growDeref(_, _, _, _)
growDeref(m, i, oldSize, oldIdx) ==
  IF Failed(m) \/ i >= oldSize THEN m
  ELSE growDeref(decrement(m, oldIdx + i), i + 1, oldSize, oldIdx)

\* Is one of the blocks that are listed in blks without a refcount?
anyBare(m, blks) == \E i \in 1..Len(blks) : RefcountOf(m, blks[i] \div CS(m)) = 0

\* One more growth on the record of the call: the header now names the new
\* table, through which the blocks allocRefcountBlock has entered so far are
\* read from now on.  (The newBlocks blocks from blockBase on, which
\* growTable entered itself, are on the record of the growth.)
growCounted(hd, blockBase, newBlocks) ==
  IF Failed(hd) THEN hd
  ELSE [hd EXCEPT !.grew = @ + 1, !.bare = @ \/ anyBare(hd, hd.blk)]

\* A growTable that dereferences the old table before the header names the
\* new one.
growDerefFirst(rf, newTableStart, tableSize, newBlocks, oldSize, oldIdx) ==
  growCounted(call("setRefcountTable", growDeref(rf, 0, oldSize, oldIdx),
                   <<newTableStart * CS(rf), tableSize>>),
              newTableStart + tableSize, newBlocks)

\* growTable from "Set the header values": rf is the machine after the new
\* table and blocks were written, oldSize and oldIdx the table it leaves.
growSwitch(rf, newTableStart, tableSize, newBlocks, oldSize, oldIdx) ==
  growDeref(growCounted(call("setRefcountTable", rf,
                             <<newTableStart * CS(rf), tableSize>>),
                        newTableStart + tableSize, newBlocks),
            0, oldSize, oldIdx)

\* The refcount of every cluster of the container as the table of m gives it.
RefcountsOf(m) == [c \in 0..(NumClusters - 1) |-> RefcountOf(m, c)]

\* The clusters the entries of the table of m point to: its refcount blocks.
BlocksOf(m) ==
  {Low62(Bytes(m, refcountOffset(m) + 8 * ti, 8)) \div CS(m) :
     ti \in 0..(refcountClusters(m) * (CS(m) \div 8) - 1)} \ {0}

\* One growTable on the record of the call: what it settled on (the start of
\* the new table, its size, the number of new blocks, the start of the run
\* the second findFreeSequence returned), the table it found (oldIdx,
\* oldSize), the refcounts and the blocks before it wrote anything (g), its
\* writes (those after the first ioFrom, up to ioTo), and the error, the
\* refcounts and max() it ended with (x).
growNoted(g, x, newTableStart, tableSize, newBlocks) ==
  [x EXCEPT !.gr = Append(@,
     [start |-> newTableStart, tableSize |-> tableSize, newBlocks |-> newBlocks,
      next |-> g.ret, oldIdx |-> refcountOffset(g) \div CS(g),
      oldSize |-> refcountClusters(g), rcs |-> RefcountsOf(g), blocks |-> BlocksOf(g),
      ioFrom |-> Len(g.io), ioTo |-> Len(x.io), err |-> x.err,
      post |-> RefcountsOf(x), max |-> max(x), entries |-> blockEntries(g), cs |-> CS(g)])]

\* growTable from "Create and fill the new table", the run being the one
\* asked for.
growWritten(g, newTableStart, tableSize, newBlocks) ==
  growSwitch(
    growRefs(
      growBlocks(
        Zero(Copy(g, newTableStart * CS(g), refcountOffset(g),
                  refcountClusters(g) * CS(g)),
             (newTableStart + refcountClusters(g)) * CS(g),
             (tableSize - refcountClusters(g)) * CS(g)),
        0, newBlocks, newTableStart + tableSize, newTableStart),
      0, tableSize + newBlocks, newTableStart + tableSize,
      newClusterOffset0(g, newTableStart)),
    newTableStart, tableSize, newBlocks, refcountClusters(g), refcountOffset(g) \div CS(g))

\* growTable from "Create and fill the new table": g is the outcome of the
\* second findFreeSequence.
growFill(g, newTableStart, tableSize, newBlocks) ==
  IF Failed(g) THEN g
  ELSE growNoted(g,
                 IF g.ret # newTableStart + 1 THEN Throw(g, "TableGrowthFailed")
                 ELSE growWritten(g, newTableStart, tableSize, newBlocks),
                 newTableStart, tableSize, newBlocks)

\* growTable once the size is settled (sz).
growSized(f, newTableStart, sz) ==
  growFill(call("findFreeSequence", f, <<sz.tableSize - 1 + sz.newBlocks>>),
           newTableStart, sz.tableSize, sz.newBlocks)

\* growTable once the first findFreeSequence returned (f.ret).
growFrom(f) ==
  IF Failed(f) THEN f ELSE growSized(f, f.ret, growSize(f, f.ret, refcountClusters(f)))

\* refcountsImpl.growTable
growTable(m) == growFrom(call("findFreeSequence", m, <<1>>))

\* A test that finds no block self-describing.
selfDescribingNever(m, idx, blockIdx) == FALSE

\* The test of allocRefcountBlock: is the refcount of blockIdx inside the
\* block that describes idx?
selfDescribing(m, idx, blockIdx) ==
  LET blockBlocksStart == idx - (idx % blockEntries(m))
  IN  blockIdx > blockBlocksStart /\ blockIdx - blockBlocksStart < blockEntries(m)

\* Does allocRefcountBlock have to grow the table for idx?
mustGrow(m, idx) == tableOffset(m, idx) >= CS(m) * refcountClusters(m)

\* refcountsImpl.refNewCluster: a is the outcome of allocRefcountBlock.
refInBlock(a, idx) ==
  IF Failed(a) THEN a ELSE call("rcWrite", a, <<a.ret, idx % blockEntries(a), 1>>)

refNewCluster(m, idx) == refInBlock(call("allocRefcountBlock", m, <<idx>>), idx)

\* A new block that is not entered in the table.
blockUnlinked(d, tableOff, blockOff) == Ret(d, blockOff)

\* The container right after allocRefcountBlock wrote a table entry: blk
\* lists the blocks the call has entered in the table, bare tells whether
\* one of them had refcount 0 at such a moment.
linked(w, blockOff) ==
  IF Failed(w) THEN w
  ELSE [w EXCEPT !.blk = Append(@, blockOff),
                 !.bare = @ \/ anyBare(w, Append(w.blk, blockOff))]

\* allocRefcountBlock, "Write the new entry in the table".
blockLinked(d, tableOff, blockOff) ==
  Ret(linked(WriteUint64(d, tableOff + refcountOffset(d), Word(0, blockOff)), blockOff),
      blockOff)

\* A new block whose own refcount is written nowhere.
blockUndescribed(z, idx, blockIdx) == z

\* The branch allocRefcountBlock takes for the block at blockIdx that is to
\* describe idx (br lists them).
took(z, idx, blockIdx, self) ==
  IF Failed(z) THEN z
  ELSE [z EXCEPT !.br = Append(@, [idx |-> idx, blockIdx |-> blockIdx, self |-> self])]

\* allocRefcountBlock, "Check if the refcount for this block is inside itself".
blockDescribed(z, idx, blockIdx) ==
  IF selfDescribing(z, idx, blockIdx)
  THEN call("rcWrite", took(z, idx, blockIdx, TRUE),
            <<blockIdx * CS(z), blockIdx % blockEntries(z), 1>>)
  ELSE call("refNewCluster", took(z, idx, blockIdx, FALSE), <<blockIdx>>)

\* allocRefcountBlock once the cluster of the new block was found (f.ret).
blockFound(f, idx, tableOff) ==
  IF Failed(f) THEN f
  ELSE blockLinked(blockDescribed(Zero(f, f.ret * CS(f), CS(f)), idx, f.ret),
                   tableOff, f.ret * CS(f))

\* allocRefcountBlock once the table entry was read (e.ret).
blockEntryRead(e, idx, tableOff) ==
  IF Failed(e) \/ e.ret # 0 THEN e
  ELSE blockFound(call("findFreeSequence", e, <<1>>), idx, tableOff)

\* The calls of allocRefcountBlock that have not returned (depth), the most
\* there were at a time (deep), and the most there were when growTable was
\* called (grewAt).
entered(m) ==
  [m EXCEPT !.depth = @ + 1, !.deep = IF m.depth + 1 > @ THEN m.depth + 1 ELSE @]

grownAt(m) == [m EXCEPT !.grewAt = IF m.depth > @ THEN m.depth ELSE @]

left(r) == [r EXCEPT !.depth = @ - 1]

\* refcountsImpl.allocRefcountBlock: ret is the position of the block.  The
\* table offset is computed before the table grows and used after.
allocRefcountBlock(m, idx) ==
  IF Failed(m) THEN m
  ELSE left(blockEntryRead(
              call("readTableEntry",
                   IF mustGrow(m, idx) THEN call("growTable", grownAt(entered(m)), <<>>)
                   ELSE entered(m),
                   <<tableOffset(m, idx)>>),
              idx, tableOffset(m, idx)))

\* The loop of allocate over idx .. idx+n-1.
RECURSIVE allocateRefs(_, _, _)
allocateRefs(m, i, last) ==
  IF Failed(m) \/ i > last THEN m
  ELSE allocateRefs(call("refNewCluster", m, <<i>>), i + 1, last)

\* allocate once findFreeSequence returned (f.ret).
allocateFrom(f, n) ==
  IF Failed(f) THEN f ELSE Ret(allocateRefs(f, f.ret, f.ret + n - 1), f.ret)

\* refcountsImpl.allocate: ret is the first cluster of the range.
allocate(m, n) == allocateFrom(call("findFreeSequence", m, <<n>>), n)

\* ----------------------------------------------------------- guest mapping
\* mapEntry: an L1 or L2 entry, as the eight bytes of its word.
entryCompressed(e) == (e[1] \div compressedByte) % 2 = 1
entryNoCow(e) == e[1] >= noCowByte
entryZero(e) == e[8] % 2 = zeroBit
entryOffset(e) == Low62(e)
entryNil(e) == entryOffset(e) = 0
hasOffset(e) == ~entryZero(e) /\ ~entryNil(e)
cow(e) == ~entryNoCow(e) /\ ~entryNil(e)
writable(e) == hasOffset(e) /\ ~cow(e)

\* guestImpl.l2Entries
l2Entries(m) == CS(m) \div 8

\* guestImpl.validateL1: the error, or "".
validateL1(m, e) ==
  IF (e[6] * 65536 + e[7] * 256 + e[8]) % CS(m) # 0 THEN "BadMappingEntry" ELSE ""

\* guestImpl.validateL2
validateL2(m, e) ==
  IF entryZero(e) THEN ""
  ELSE IF entryCompressed(e) THEN "UnsupportedFeature"
  ELSE validateL1(m, e)

validateEntry(m, level, e) == IF level = 1 THEN validateL1(m, e) ELSE validateL2(m, e)

\* An entry for a cluster at alloc without the no-COW bit.
newMapEntryShared(alloc) == Word(0, alloc)

\* The entry getEntry writes to the parent slot for a cluster at alloc.
newMapEntry(alloc) == Word(noCowByte, alloc)

\* A new cluster that is zeroed whatever the old entry holds.
entryInitZero(a, alloc, oldEntry) == Zero(a, alloc, CS(a))

\* getEntry, "Initialize the new block".
entryInit(a, alloc, oldEntry) ==
  IF hasOffset(oldEntry) THEN Copy(a, alloc, entryOffset(oldEntry), CS(a))
  ELSE Zero(a, alloc, CS(a))

\* getEntry, "Deref the old value".
entryDeref(w, oldEntry) ==
  IF hasOffset(oldEntry) THEN decrement(w, entryOffset(oldEntry) \div CS(w)) ELSE w

\* What the new cluster at alloc has to hold when it is initialised: the
\* bytes of the old cluster, or zeros.
entryInitial(m, oldEntry) ==
  IF hasOffset(oldEntry) /\ InContainer(entryOffset(oldEntry), CS(m))
  THEN Bytes(m, entryOffset(oldEntry), CS(m))
  ELSE [k \in 1..CS(m) |-> 0]

\* getEntry, "Write it to the parent": i is the machine the write finds.  The
\* record of the call keeps the slot, the entry written, the refcount of the
\* new cluster and of the old one at that moment, and whether the new
\* cluster is initialised; before and after are filled in by entryMoved;
\* ioAt is the place of the write among the writes of the call.
entryLinked(i, alloc, off, oldEntry) ==
  IF Failed(i) THEN i
  ELSE [WriteUint64(i, off, newMapEntry(alloc)) EXCEPT
          !.cw = Append(@, [off |-> off, alloc |-> alloc, old |-> oldEntry,
                            entry |-> newMapEntry(alloc), cs |-> CS(i),
                            rcNew |-> RefcountOf(i, alloc \div CS(i)),
                            rcOld |-> RefcountOf(i, entryOffset(oldEntry) \div CS(i)),
                            init |-> Bytes(i, alloc, CS(i)) = entryInitial(i, oldEntry),
                            before |-> 0, after |-> 0, err |-> "",
                            ioAt |-> Len(i.io) + 1])]

\* getEntry with the old cluster dereferenced first.
entryDerefFirst(a, alloc, off, oldEntry) ==
  entryLinked(entryInit(entryDeref(a, oldEntry), alloc, oldEntry), alloc, off, oldEntry)

\* getEntry from "Initialize the new block" to "Deref the old value".
entrySteps(a, alloc, off, oldEntry) ==
  entryDeref(entryLinked(entryInit(a, alloc, oldEntry), alloc, off, oldEntry), oldEntry)

\* The refcount of the old cluster before the steps (a) and after them (d),
\* on the record of the step.
entryNoted(d, a, oldEntry) ==
  IF Len(d.cw) = Len(a.cw) THEN d
  ELSE [d EXCEPT !.cw[Len(d.cw)].before = RefcountOf(a, entryOffset(oldEntry) \div CS(a)),
                 !.cw[Len(d.cw)].after = RefcountOf(d, entryOffset(oldEntry) \div CS(a)),
                 !.cw[Len(d.cw)].err = d.err]

\* An entry getEntry returns to a caller that asked for a writable one.
fetched(x, e) == IF Failed(x) THEN x ELSE [x EXCEPT !.fw = Append(@, e)]

\* The step of getEntry that makes the entry at off writable ended in x
\* without the write to the parent slot (cf lists such steps, with the slot,
\* the entry it held, and whether a cluster had been allocated); r is the
\* machine before the step.
unlinked(x, r, off, oldEntry, allocated) ==
  IF Failed(x) /\ Len(x.cw) = Len(r.cw)
  THEN [x EXCEPT !.cf = Append(@, [off |-> off, old |-> oldEntry, allocated |-> allocated])]
  ELSE x

\* A getEntry that has emptied the parent slot when the allocation fails.
entryMovedEmptied(a, off, oldEntry) ==
  IF Failed(a) THEN [WriteUint64([a EXCEPT !.err = ""], off, ZeroWord) EXCEPT !.err = a.err]
  ELSE fetched(Ret(entryNoted(unlinked(entrySteps(a, a.ret * CS(a), off, oldEntry),
                                       a, off, oldEntry, TRUE),
                              a, oldEntry),
                   newMapEntry(a.ret * CS(a))),
               newMapEntry(a.ret * CS(a)))

\* getEntry once the new cluster is allocated (a.ret).
entryMoved(a, off, oldEntry) ==
  IF Failed(a) THEN a
  ELSE fetched(Ret(entryNoted(unlinked(entrySteps(a, a.ret * CS(a), off, oldEntry),
                                       a, off, oldEntry, TRUE),
                              a, oldEntry),
                   newMapEntry(a.ret * CS(a))),
               newMapEntry(a.ret * CS(a)))

\* getEntry once the entry was read (r.ret).
entryRead(r, level, off, wr) ==
  IF Failed(r) THEN r
  ELSE IF validateEntry(r, level, r.ret) # "" THEN Throw(r, validateEntry(r, level, r.ret))
  ELSE IF ~wr \/ writable(r.ret) THEN (IF wr THEN fetched(r, r.ret) ELSE r)
  ELSE entryMoved(unlinked(call("allocate", r, <<1>>), r, off, r.ret, FALSE), off, r.ret)

\* guestImpl.getEntry: ret is the entry.
getEntry(m, level, off, wr) ==
  IF Failed(m) THEN m ELSE entryRead(ReadUint64(m, off), level, off, wr)

\* guestImpl.getL1
getL1(m, idx, wr) ==
  call("getEntry", m, <<1, m.g.l1Position + (idx \div l2Entries(m)) * 8, wr>>)

\* guestImpl.getL2: l1 is the outcome of getL1.
l2Under(l1, idx, wr) ==
  IF Failed(l1) THEN l1
  ELSE IF ~wr /\ entryNil(l1.ret) THEN l1
  ELSE call("getEntry", l1, <<2, entryOffset(l1.ret) + (idx % l2Entries(l1)) * 8, wr>>)

getL2(m, idx, wr) == l2Under(call("getL1", m, <<idx, wr>>), idx, wr)

\* A readByL2 that ignores the zero bit.
readByL2Nil(m, n, l2, off) ==
  IF entryNil(l2) THEN Ret(m, [i \in 1..n |-> 0]) ELSE ReadAt(m, entryOffset(l2) + off, n)

\* guestImpl.readByL2: ret is the slice read.
readByL2(m, n, l2, off) ==
  IF entryNil(l2) \/ entryZero(l2) THEN Ret(m, [i \in 1..n |-> 0])
  ELSE ReadAt(m, entryOffset(l2) + off, n)

\* guestImpl.readCluster: ret is the n bytes at off of guest cluster idx.
readUnder(l2, n, off) == IF Failed(l2) THEN l2 ELSE call("readByL2", l2, <<n, l2.ret, off>>)

readCluster(m, n, idx, off) == readUnder(call("getL2", m, <<idx, FALSE>>), n, off)

\* writeCluster, the write of the guest's bytes at off: dw keeps its place
\* among the writes of the call and the number of parent slots written
\* before it.
dataWritten(l2, off, p) ==
  [WriteAt(l2, off, p) EXCEPT
     !.dw = Append(@, [off |-> off, len |-> Len(p), ioAt |-> Len(l2.io) + 1,
                       cws |-> Len(l2.cw)])]

\* A write that lands at the start of the cluster.
writeUnderStart(l2, p, off) ==
  IF Failed(l2) THEN l2 ELSE dataWritten(l2, entryOffset(l2.ret), p)

\* guestImpl.writeCluster: l2 is the writable entry, orig what the cluster
\* held.
writeUnder(l2, p, off) ==
  IF Failed(l2) THEN l2 ELSE dataWritten(l2, entryOffset(l2.ret) + off, p)

\* writeCluster, g.Lock(): lk counts the times the guest's mutex was taken
\* for writing.
locked(m) == [m EXCEPT !.lk = @ + 1]

\* A writeCluster that clears the autoclear bits after the lookup.
writeMappedFirst(orig, idx) ==
  call("autoclear", call("getL2", locked(orig), <<idx, TRUE>>), <<>>)

\* writeCluster under the mutex: autoclear, then the writable entry.
writeMapped(orig, idx) ==
  call("getL2", call("autoclear", locked(orig), <<>>), <<idx, TRUE>>)

\* A writeCluster that does not compare what it read with what it writes.
writeAlways(orig, p, idx, off) ==
  IF Failed(orig) THEN orig
  ELSE writeUnder(writeMapped(orig, idx), p, off)

writeChanged(orig, p, idx, off) ==
  IF Failed(orig) \/ orig.ret = p THEN orig
  ELSE writeUnder(writeMapped(orig, idx), p, off)

writeCluster(m, p, idx, off) ==
  writeChanged(call("readCluster", m, <<Len(p), idx, off>>), p, idx, off)

\* A bounds test on the offset alone.
outOfBoundsStart(m, off, len) == off > m.g.size

\* The bounds test of perCluster.
outOfBounds(m, off, len) == off + len > m.g.size

\* The loop of perCluster: op is "r" or "w"; p is what is left of the
\* slice; the bytes read are appended to data.
RECURSIVE perClusterLoop(_, _, _, _, _, _)
perClusterDone(c, op, rest, idx, done) ==
  perClusterLoop(IF op = "r" /\ ~Failed(c) THEN [c EXCEPT !.data = @ \o c.ret] ELSE c,
                 op, rest, idx, 0, done)

perClusterStep(m, op, p, idx, offset, done, length) ==
  perClusterDone(IF op = "r" THEN call("readCluster", m, <<length, idx, offset>>)
                 ELSE call("writeCluster", m, <<SubSeq(p, 1, length), idx, offset>>),
                 op, SubSeq(p, length + 1, Len(p)), idx + 1, done + length)

perClusterLoop(m, op, p, idx, offset, done) ==
  IF Failed(m) \/ p = <<>> THEN Ret(m, done)
  ELSE perClusterStep(m, op, p, idx, offset, done, Min2(CS(m) - offset, Len(p)))

\* guestImpl.perCluster: ret is the byte count it returns.
perCluster(m, op, p, off) ==
  IF outOfBounds(m, off, Len(p)) THEN Throw(m, "OutOfBounds")
  ELSE perClusterLoop(m, op, p, off \div CS(m), off % CS(m), 0)

\* The local variable bytes of perCluster when it returns or throws: the
\* total length of the segments f has returned for.
RECURSIVE handledLoop(_, _, _, _, _, _)
handledStep(c, op, rest, idx, done, length) ==
  IF Failed(c) THEN done ELSE handledLoop(c, op, rest, idx, 0, done + length)

handledLoop(m, op, p, idx, offset, done) ==
  IF p = <<>> THEN done
  ELSE handledStep(IF op = "r"
                   THEN call("readCluster", m, <<Min2(CS(m) - offset, Len(p)), idx, offset>>)
                   ELSE call("writeCluster", m,
                             <<SubSeq(p, 1, Min2(CS(m) - offset, Len(p))), idx, offset>>),
                   op, SubSeq(p, Min2(CS(m) - offset, Len(p)) + 1, Len(p)), idx + 1, done,
                   Min2(CS(m) - offset, Len(p)))

handled(m, op, p, off) ==
  IF outOfBounds(m, off, Len(p)) THEN 0
  ELSE handledLoop(m, op, p, off \div CS(m), off % CS(m), 0)

\* BacktraceWrap around perCluster: n is assigned only when perCluster
\* returns, so an exception leaves it 0.
wrapN(m) == IF Failed(m) THEN [m EXCEPT !.ret = 0] ELSE m

\* guestImpl.ReadAt: data is the buffer, ret is n.
guestReadAt(m, len, off) ==
  wrapN(call("perCluster", [m EXCEPT !.data = <<>>], <<"r", [i \in 1..len |-> 0], off>>))

\* guestImpl.WriteAt
guestWriteAt(m, p, off) == wrapN(call("perCluster", [m EXCEPT !.data = <<>>], <<"w", p, off>>))

\* ------------------------------------------------------ snapshot inventory
\* A big-endian field of at most 8 bytes as a number (Huge when it does not
\* fit the model's integers).
Field(buf, from, n) ==
  LET b == SubSeq(buf, from, from + n - 1)
  IN  IF n <= 3 THEN BigEndian(b, n)
      ELSE IF \E i \in 1..(n - 4) : b[i] # 0 THEN Huge
      ELSE IF b[n - 3] >= 64 THEN Huge
      ELSE BigEndian(SubSeq(b, n - 3, n), 4)

\* snapshotImpl.readExtra over the extra bytes: the two 64-bit fields; a
\* field cut short is tolerated, a field missing entirely is an error.
extraFails(extra) == Len(extra) = 0 \/ Len(extra) = 8

readExtra(snap, extra) ==
  LET s1 == IF Len(extra) >= 8 THEN [snap EXCEPT !.vmStateSize = Field(extra, 1, 8)] ELSE snap
      s2 == IF Len(extra) >= 16 THEN [s1 EXCEPT !.guestSize = Field(extra, 9, 8)] ELSE s1
  IN  [s2 EXCEPT !.unknownExtra = IF Len(extra) > 16 THEN SubSeq(extra, 17, Len(extra))
                                  ELSE <<>>]

\* The snapshot a record describes: sh is its header, the rest what followed.
snapshotOf(m, sh, extra, id, name) ==
  readExtra([l1Position |-> Field(sh, 1, 8), l1Entries |-> Field(sh, 9, 4),
             creationSeconds |-> Field(sh, 17, 4), creationNsec |-> Field(sh, 21, 4),
             uptime |-> Field(sh, 25, 8), vmStateSize |-> Field(sh, 33, 4),
             guestSize |-> size(m), unknownExtra |-> <<>>, id |-> id, name |-> name],
            extra)

\* readSnapshot once the name was read (r4.ret); at is where the name ends.
snapshotNamed(r4, sh, extra, id, at) ==
  IF Failed(r4) THEN r4
  ELSE Ret(r4, <<snapshotOf(r4, sh, extra, id, r4.ret),
                 r4.hdr.v2.SnapshotsOffset + pad8(at - r4.hdr.v2.SnapshotsOffset)>>)

\* readSnapshot once the id was read (r3.ret).
snapshotId(r3, sh, extra, at) ==
  IF Failed(r3) THEN r3
  ELSE snapshotNamed(ReadAt(r3, at, Field(sh, 15, 2)), sh, extra, r3.ret,
                     at + Field(sh, 15, 2))

\* readSnapshot once the extra data was read (r2.ret).
snapshotExtra(r2, sh, at) ==
  IF Failed(r2) THEN r2
  ELSE IF extraFails(r2.ret) THEN Throw(r2, "SnapshotExtra")
  ELSE snapshotId(ReadAt(r2, at, Field(sh, 13, 2)), sh, r2.ret, at + Field(sh, 13, 2))

\* readSnapshot once the header of the record was read (r1.ret).
snapshotHeader(r1, pos) ==
  IF Failed(r1) THEN r1
  ELSE IF r1.hdr.v2.Version >= 3 /\ Field(r1.ret, 37, 4) < 16 THEN Throw(r1, "ShortSnapshot")
  ELSE snapshotExtra(ReadAt(r1, pos + 40, Field(r1.ret, 37, 4)), r1.ret,
                     pos + 40 + Field(r1.ret, 37, 4))

\* readSnapshot at position pos: ret is <<the snapshot, the next position>>.
readSnapshot(m, pos) == snapshotHeader(ReadAt(m, pos, 40), pos)

RECURSIVE readSnapshotsLoop(_, _, _, _)
readSnapshotsNext(r, i, snaps) ==
  IF Failed(r) THEN r ELSE readSnapshotsLoop(r, i + 1, r.ret[2], Append(snaps, r.ret[1]))

readSnapshotsLoop(m, i, pos, snaps) ==
  IF Failed(m) THEN m
  ELSE IF i >= m.hdr.v2.NbSnapshots THEN Ret(m, snaps)
  ELSE readSnapshotsNext(readSnapshot(m, pos), i, snaps)

\* readSnapshots: ret is the list of snapshots.
readSnapshots(m) ==
  IF m.hdr.v2.SnapshotsOffset = 0 THEN Ret(m, <<>>)
  ELSE readSnapshotsLoop(m, 0, m.hdr.v2.SnapshotsOffset, <<>>)

\* The functions of the program, by name.
call(f, m, a) ==
  CASE f = "headerWrite" -> headerWrite(m)
    [] f = "autoclear" -> autoclear(m)
    [] f = "setRefcountTable" -> setRefcountTable(m, a[1], a[2])
    [] f = "rcRead" -> rcRead(m, a[1], a[2])
    [] f = "rcWrite" -> rcWrite(m, a[1], a[2], a[3])
    [] f = "readTableEntry" -> readTableEntry(m, a[1])
    [] f = "refcountOp" -> refcountOp(m, a[1], a[2])
    [] f = "ScanRun" -> ScanRun(m)
    [] f = "Recv" -> Recv(m)
    [] f = "findFreeSequence" -> findFreeSequence(m, a[1])
    [] f = "growTable" -> growTable(m)
    [] f = "refNewCluster" -> refNewCluster(m, a[1])
    [] f = "allocRefcountBlock" -> allocRefcountBlock(m, a[1])
    [] f = "allocate" -> allocate(m, a[1])
    [] f = "getEntry" -> getEntry(m, a[1], a[2], a[3])
    [] f = "getL1" -> getL1(m, a[1], a[2])
    [] f = "getL2" -> getL2(m, a[1], a[2])
    [] f = "readByL2" -> readByL2(m, a[1], a[2], a[3])
    [] f = "readCluster" -> readCluster(m, a[1], a[2], a[3])
    [] f = "writeCluster" -> writeCluster(m, a[1], a[2], a[3])
    [] f = "perCluster" -> perCluster(m, a[1], a[2], a[3])

\* ------------------------------------------------------------ the images
\* An image is described by its header fields, the clusters of its refcount
\* blocks (blocks[k] holds the refcounts of clusters (k-1)*blockEntries ..,
\* 0: no block), the refcount of every cluster (rc) and the 64-bit words and
\* data bytes its clusters hold (pokes, a set of <<offset, bytes>>).
ImgCS == Pow2(MinClusterBits)

ImgHeader(d) ==
  [v2 |-> [Magic |-> magic, Version |-> d.ver, BackingFileOffset |-> 0,
           BackingFileSize |-> 0, ClusterBits |-> MinClusterBits, Size |-> d.size,
           CryptMethod |-> 0, L1Size |-> d.l1Size, L1TableOffset |-> d.l1c * ImgCS,
           RefcountTableOffset |-> d.rt * ImgCS, RefcountTableClusters |-> d.rtc,
           NbSnapshots |-> d.nsnap, SnapshotsOffset |-> d.snapc * ImgCS],
   body |-> (IF d.ver = 3
             THEN <<[t |-> "v3",
                     v |-> [IncompatibleFeatures |->
                              IF "incompat" \in DOMAIN d THEN d.incompat ELSE 0,
                            CompatibleFeatures |-> 0,
                            AutoclearFeatures |-> d.autoclear, RefcountOrder |-> d.order,
                            HeaderLength |-> v3Length]]>>
             ELSE <<>>) \o d.exts \o <<[t |-> "end"]>>]

ImgPokes(d) ==
  LET width == Pow2(d.order) \div 8
      be == ImgCS \div width
  IN  {<<d.rt * ImgCS + 8 * (k - 1), Word(0, d.blocks[k] * ImgCS)>> :
         k \in {j \in 1..Len(d.blocks) : d.blocks[j] # 0}}
      \cup {<<d.blocks[(c \div be) + 1] * ImgCS + (c % be) * width,
              PutBigEndian(d.rc[c], width)>> : c \in {x \in DOMAIN d.rc : d.rc[x] > 0}}
      \cup d.pokes

ImgDisk(d) ==
  LET P == ImgPokes(d)
  IN  [p \in 0..(CapBytes - 1) |->
         LET hits == {k \in P : p >= k[1] /\ p < k[1] + Len(k[2])}
         IN  IF hits = {} THEN 0 ELSE (CHOOSE k \in hits : TRUE)[2][p - (CHOOSE k \in hits : TRUE)[1] + 1]]

\* Refcount 1 on the clusters of U, 0 elsewhere.
Used(U) == [c \in 0..(NumClusters - 1) |-> IF c \in U THEN 1 ELSE 0]

\* A freshly created image of 4 guest clusters with nothing written: header,
\* refcount table, one refcount block, L1 table.  Layout "A" is the order
\* qemu-img lays them out in, layout "B" puts the L1 table first.  exts are
\* the extensions of its header.
Fresh(layout, ver, order, ac, exts) ==
  [ver |-> ver, order |-> order, autoclear |-> ac, exts |-> exts, size |-> 4 * ImgCS, l1Size |-> 2,
   l1c |-> IF layout = "A" THEN 3 ELSE 1, rt |-> IF layout = "A" THEN 1 ELSE 3,
   rtc |-> 1, blocks |-> <<2>>, rc |-> Used(0..3), pokes |-> {},
   content |-> [b \in 0..(4 * ImgCS - 1) |-> 0], nsnap |-> 0, snapc |-> 0]

\* A header extension of five bytes that the program does not know.
Unknown == [t |-> "ext", id |-> 74565, data |-> <<1, 2, 3, 4, 5>>]

\* The record of the snapshot table of Snap: 40 bytes of header, 16 of extra
\* data, the id "1", the name "snap", padding.
SnapRecord ==
  Word(0, 7 * ImgCS) \o <<0, 0, 0, 2>> \o <<0, 1>> \o <<0, 4>>
  \o <<101, 83, 241, 0>> \o <<0, 0, 0, 0>> \o Word(0, 42) \o <<0, 0, 0, 0>>
  \o <<0, 0, 0, 16>> \o Word(0, 0) \o Word(0, 4 * ImgCS)
  \o <<49>> \o <<115, 110, 97, 112>> \o <<0, 0, 0>>

\* An image with one internal snapshot taken when guest clusters 0 and 1 were
\* written (L2 table 4, data 5 and 6, all shared with the snapshot's L1 table
\* 7), and guest cluster 2 written since (L2 table 8, data 9); guest cluster
\* 3 is a zero cluster that kept its preallocated cluster 10.  The snapshot
\* table is at 11.  8-bit refcounts.
Snap ==
  [ver |-> 3, order |-> 3, autoclear |-> 8, exts |-> <<>>, size |-> 4 * ImgCS, l1Size |-> 2,
   l1c |-> 1, rt |-> 3, rtc |-> 1, blocks |-> <<2>>,
   rc |-> [c \in 0..(NumClusters - 1) |->
             IF c \in {4, 5, 6} THEN 2 ELSE IF c <= 14 THEN 1 ELSE 0],
   pokes |-> {<<1 * ImgCS, Word(0, 4 * ImgCS)>>, <<1 * ImgCS + 8, Word(noCowByte, 8 * ImgCS)>>,
              <<4 * ImgCS, Word(0, 5 * ImgCS)>>, <<4 * ImgCS + 8, Word(0, 6 * ImgCS)>>,
              <<5 * ImgCS, [i \in 1..ImgCS |-> 50 + i]>>,
              <<6 * ImgCS, [i \in 1..ImgCS |-> IF i <= 3 THEN 0 ELSE 70 + i]>>,
              <<7 * ImgCS, Word(0, 4 * ImgCS)>>,
              <<8 * ImgCS, Word(noCowByte, 9 * ImgCS)>>,
              <<8 * ImgCS + 8, Word(0, 10 * ImgCS + zeroBit)>>,
              <<9 * ImgCS, [i \in 1..ImgCS |-> 90 + i]>>,
              <<10 * ImgCS, [i \in 1..ImgCS |-> 200 + i]>>,
              <<11 * ImgCS, SnapRecord>>},
   content |-> [b \in 0..(4 * ImgCS - 1) |->
                  IF b < ImgCS THEN 51 + b
                  ELSE IF b < ImgCS + 3 THEN 0
                  ELSE IF b < 2 * ImgCS THEN 71 + (b - ImgCS)
                  ELSE IF b < 3 * ImgCS THEN 91 + (b - 2 * ImgCS) ELSE 0],
   nsnap |-> 1, snapc |-> 11]

\* An image of 8 guest clusters, 6 of them written, whose 15 clusters leave
\* one free index under the refcount table (16-bit refcounts, 8 per block, 2
\* table entries): L1 table 1-2, refcount block 3, refcount table 4, data 5,
\* L2 table 6, data 7, refcount block 8, L2 table 9, data 10 and 11, L2
\* table 12, data 13 and 14.  The first eight bytes of guest cluster 0 are 0.
Full ==
  [ver |-> 3, order |-> 4, autoclear |-> 0, exts |-> <<>>, size |-> 8 * ImgCS, l1Size |-> 4,
   l1c |-> 1, rt |-> 4, rtc |-> 1, blocks |-> <<3, 8>>, rc |-> Used(0..14),
   pokes |-> {<<1 * ImgCS, Word(noCowByte, 6 * ImgCS)>>,
              <<1 * ImgCS + 8, Word(noCowByte, 9 * ImgCS)>>,
              <<2 * ImgCS, Word(noCowByte, 12 * ImgCS)>>,
              <<6 * ImgCS, Word(noCowByte, 5 * ImgCS)>>,
              <<6 * ImgCS + 8, Word(noCowByte, 7 * ImgCS)>>,
              <<9 * ImgCS, Word(noCowByte, 10 * ImgCS)>>,
              <<9 * ImgCS + 8, Word(noCowByte, 11 * ImgCS)>>,
              <<12 * ImgCS, Word(noCowByte, 13 * ImgCS)>>,
              <<12 * ImgCS + 8, Word(noCowByte, 14 * ImgCS)>>,
              <<5 * ImgCS + 8, <<31, 32, 33, 34, 35, 36, 37, 38>>>>,
              <<7 * ImgCS, [i \in 1..ImgCS |-> 70 + i]>>,
              <<10 * ImgCS, [i \in 1..ImgCS |-> 100 + i]>>,
              <<11 * ImgCS, [i \in 1..ImgCS |-> 110 + i]>>,
              <<13 * ImgCS, [i \in 1..ImgCS |-> 130 + i]>>,
              <<14 * ImgCS, [i \in 1..ImgCS |-> 140 + i]>>},
   content |-> [b \in 0..(8 * ImgCS - 1) |->
                  LET c == b \div ImgCS
                      i == b % ImgCS
                  IN  CASE c = 0 -> IF i < 8 THEN 0 ELSE 23 + i
                        [] c = 1 -> 71 + i
                        [] c = 2 -> 101 + i
                        [] c = 3 -> 111 + i
                        [] c = 4 -> 131 + i
                        [] c = 5 -> 141 + i
                        [] OTHER -> 0],
   nsnap |-> 0, snapc |-> 0]

\* An image of 4 guest clusters whose guest cluster 0 is written (L2 table 4,
\* data 5) and whose guest cluster 1 is a compressed cluster (at 6), which
\* the program does not read.
Packed ==
  [ver |-> 3, order |-> 4, autoclear |-> 0, exts |-> <<>>, size |-> 4 * ImgCS, l1Size |-> 2,
   l1c |-> 1, rt |-> 3, rtc |-> 1, blocks |-> <<2>>, rc |-> Used(0..6),
   pokes |-> {<<1 * ImgCS, Word(noCowByte, 4 * ImgCS)>>,
              <<4 * ImgCS, Word(noCowByte, 5 * ImgCS)>>,
              <<4 * ImgCS + 8, Word(compressedByte, 6 * ImgCS)>>,
              <<5 * ImgCS, [i \in 1..ImgCS |-> 50 + i]>>,
              <<6 * ImgCS, [i \in 1..ImgCS |-> 60 + i]>>},
   content |-> [b \in 0..(4 * ImgCS - 1) |-> IF b < ImgCS THEN 51 + b ELSE 0],
   nsnap |-> 0, snapc |-> 0]

\* Packed with the compressed cluster at guest cluster 0 and starting at an
\* odd byte of cluster 6, so that bit 0 of its entry is set; guest cluster 1
\* is written (data 5).
PackedOdd ==
  [Packed EXCEPT
     !.pokes = {<<1 * ImgCS, Word(noCowByte, 4 * ImgCS)>>,
                <<4 * ImgCS, Word(compressedByte, 6 * ImgCS + 1)>>,
                <<4 * ImgCS + 8, Word(noCowByte, 5 * ImgCS)>>,
                <<5 * ImgCS, [i \in 1..ImgCS |-> 50 + i]>>,
                <<6 * ImgCS, [i \in 1..ImgCS |-> 60 + i]>>},
     !.content = [b \in 0..(4 * ImgCS - 1) |->
                    IF b >= ImgCS /\ b < 2 * ImgCS THEN 51 + (b - ImgCS) ELSE 0]]

\* A fresh version 3 image whose incompatible-features mask is ic.
Marked(ic) == [incompat |-> ic] @@ Fresh("A", 3, 4, 0, <<>>)

\* The masks of the marked images: dirty, corrupt, both, bit 2, bit 4, dirty
\* with bit 2, bit 20.
Masks == {featureDirty, featureCorrupt, incompatibleKnown, 4, 16, 5, Pow2(20)}

\* The images a container is opened on.
Images ==
  {Fresh("A", 3, 4, 0, <<>>), Fresh("B", 3, 4, 9, <<Unknown>>), Fresh("B", 2, 4, 0, <<>>),
   Fresh("B", 3, 3, 8, <<>>), Snap, Full} \cup {Marked(ic) : ic \in Masks}

\* ---------------------------------------------------------------- state
\* disk, dhdr: the container (the clusters' bytes, the header cluster);
\* hdr: the header in memory; g: the guest (l1Position, size); scan: the
\* free-cluster goroutine; life: "new" before Open, "open", "guest" once
\* Guest() returned, "closed" after the guest's Close, "failed" when Open
\* failed, "refcounts" for a refcount manager driven directly.
\* last: the last call, what it returned and the container accesses it made.
\* nw: write calls so far.  The rest is history for the properties: okw (no
\* write call failed), shadow (the guest bytes the image was built with,
\* overlaid with every successful write), grown (table growths so far),
\* disk0 and dhdr0 (the container as it was before Open).
VARIABLES disk, dhdr, hdr, g, scan, life, last, nw, okw, shadow, grown, disk0, dhdr0, cc,
          pl, scanB

vars ==
  <<disk, dhdr, hdr, g, scan, life, last, nw, okw, shadow, grown, disk0, dhdr0, cc, pl, scanB>>

\* cc is the guest's RWMutex (mu.w: the goroutine that holds it for writing,
\* 0 for none; mu.r: the goroutines that hold it for reading) and the
\* goroutines that are inside ReadAt or WriteAt on the guest: where each is
\* (pc), its request (op, off, p), what perCluster has left of it (rest, idx,
\* offset, done), the entry readCluster resolved (res), the writable entry
\* (l2), what the call returned (err, n, data), and the guest clusters it
\* has written data to (wrote).  actor is the goroutine that took the last
\* step.
\* pl is the pipeline of a refcount manager taken by itself, with its two
\* goroutines and the goroutine that calls it (see SpecPipe); scanB is the
\* free-cluster goroutine of a second guest of the same container (see
\* SpecTwo).
Threads == 1..NumThreads

Idle ==
  [pc |-> "idle", op |-> "none", off |-> 0, p |-> <<>>, rest |-> <<>>, idx |-> 0, offset |-> 0,
   done |-> 0, res |-> ZeroWord, l2 |-> ZeroWord, err |-> "", n |-> 0, data |-> <<>>,
   wrote |-> {}]

NoThreads == [mu |-> [w |-> 0, r |-> {}], th |-> [t \in Threads |-> Idle], actor |-> 0]

NoPipe == [on |-> FALSE]

\* The state as the machine a call works on.
Mach(dk, dh, h, gg, sc, eager) ==
  [disk |-> dk, dhdr |-> dh, hdr |-> h, g |-> gg, scan |-> sc, err |-> "",
   ret |-> 0, data |-> <<>>, io |-> <<>>, nr |-> 0, grew |-> 0, eager |-> eager,
   blk |-> <<>>, bare |-> FALSE, br |-> <<>>, depth |-> 0, deep |-> 0, grewAt |-> 0,
   gr |-> <<>>, cw |-> <<>>, fw |-> <<>>, lk |-> 0,
   dw |-> <<>>, cf |-> <<>>]

M(eager) == Mach(disk, dhdr, hdr, g, scan, eager)

NoScan == [phase |-> "idle", cursor |-> 0, pending |-> 0 - 1]

NoCall ==
  [op |-> "none", off |-> 0, len |-> 0, n |-> 0, err |-> "", data |-> <<>>, io |-> <<>>,
   nr |-> 0, grew |-> 0, pre |-> <<>>, same |-> TRUE, done |-> 0,
   blk |-> <<>>, bare |-> FALSE, br |-> <<>>, depth |-> 0, deep |-> 0, grewAt |-> 0,
   gr |-> <<>>, cw |-> <<>>, fw |-> <<>>, lk |-> 0,
   dw |-> <<>>, cf |-> <<>>]

\* The record of a call that ended in machine r.
Returned(op, off, len, r, data, pre) ==
  [op |-> op, off |-> off, len |-> len, n |-> r.ret, err |-> r.err, data |-> data,
   io |-> r.io, nr |-> r.nr, grew |-> r.grew, pre |-> pre,
   same |-> (r.disk = disk /\ r.dhdr = dhdr /\ r.hdr = hdr /\ r.scan = scan), done |-> 0,
   blk |-> r.blk, bare |-> r.bare, br |-> r.br, depth |-> r.depth, deep |-> r.deep,
   grewAt |-> r.grewAt, gr |-> r.gr, cw |-> r.cw, fw |-> r.fw, lk |-> r.lk,
   dw |-> r.dw, cf |-> r.cf]

\* The container and the memory a call leaves behind.
Left(r) == disk' = r.disk /\ dhdr' = r.dhdr /\ hdr' = r.hdr /\ scan' = r.scan

InitOn(d) ==
  /\ disk = ImgDisk(d) /\ dhdr = ImgHeader(d)
  /\ disk0 = disk /\ dhdr0 = dhdr
  /\ hdr = NilHeader /\ g = [l1Position |-> 0, size |-> 0]
  /\ scan = NoScan /\ life = "new" /\ last = NoCall
  /\ nw = 0 /\ okw = TRUE /\ grown = 0
  /\ shadow = d.content
  /\ cc = NoThreads /\ pl = NoPipe /\ scanB = NoScan

Init == \E d \in Images : InitOn(d)

\* A container with a cluster the program cannot read.
InitPacked == \E d \in {Packed, PackedOdd} : InitOn(d)

\* Empty version 3 containers whose refcounts are 32 bits wide: a refcount
\* block holds 4 of them, the one-cluster refcount table covers 8 clusters.
Images32 == {Fresh("A", 3, 5, 0, <<>>), Fresh("B", 3, 5, 0, <<>>)}

Init32 == \E d \in Images32 : InitOn(d)

\* The image with a snapshot, with 16-bit refcounts: 8 to a block, a second
\* refcount block at cluster 15, and no free cluster under the 16 the
\* refcount table covers.
Snap16 == [Snap EXCEPT !.order = 4, !.blocks = <<2, 15>>, !.rc[15] = 1]

InitSnap == InitOn(Snap16)

\* ------------------------------------------------------------- the calls
\* The guest clusters a request touches.
Touched(off, len) ==
  IF len = 0 THEN {} ELSE (off \div ImgCS)..((off + len - 1) \div ImgCS)

\* What a write finds at guest cluster idx: whether the lookup succeeds (l is
\* its outcome), the L2 entry, the refcount and the bytes of the cluster it
\* points to, and the part of the request that falls in the cluster.
Found(idx, off, p, l) ==
  LET e == IF Failed(l) THEN ZeroWord ELSE l.ret
      from == IF idx * ImgCS > off THEN idx * ImgCS ELSE off
      to == Min2((idx + 1) * ImgCS, off + Len(p))
      at == entryOffset(e) - (entryOffset(e) % ImgCS)
  IN  [ok |-> ~Failed(l), l2 |-> e,
       rc |-> RefcountOf(M(FALSE), at \div ImgCS),
       old |-> IF InContainer(at, ImgCS) THEN Bytes(M(FALSE), at, ImgCS) ELSE <<>>,
       at |-> from % ImgCS,
       seg |-> SubSeq(p, from - off + 1, to - off)]

\* What a read of the whole guest disk returns in the current state, the
\* empty sequence when it fails.
GuestBytes ==
  LET r == guestReadAt(M(FALSE), g.size, 0)
  IN  IF life # "guest" \/ Failed(r) THEN <<>> ELSE r.data

\* The refcount of every cluster, as the current table gives it.
Refcounts == [c \in 0..(NumClusters - 1) |-> RefcountOf(M(FALSE), c)]

PreWrite(off, p, rcs) ==
  [cl |-> [idx \in Touched(off, Len(p)) |-> Found(idx, off, p, getL2(M(FALSE), idx, FALSE))],
   rcs |-> rcs,
   unknown |-> BitClear(hdr.v3.AutoclearFeatures, autoclearKnown),
   bytes |-> GuestBytes]

\* The requests the guest is driven with, for a disk of sz bytes: inside one
\* cluster, across a cluster boundary, in the last clusters, up to the last
\* byte, past the end, zeros, zeros in the last cluster, nothing.
WriteSet(sz) ==
  {<<0, <<1>>>>, <<ImgCS - 2, <<2, 3, 4, 5>>>>, <<sz - 2 * ImgCS + 2, <<6, 7>>>>,
   <<sz - 2, <<8, 9>>>>, <<sz - 2, <<8, 9, 8, 9>>>>, <<ImgCS, <<0, 0, 0>>>>,
   <<sz - 3, <<0>>>>, <<3 * ImgCS + 1, <<>>>>}

ReadSet(sz) ==
  {<<0, sz>>, <<ImgCS - 2, 4>>, <<sz - 1, 1>>, <<sz - 2, 4>>, <<sz, 0>>, <<sz + 1, 0>>}

\* Open
Opened(r) ==
  /\ hdr' = r.hdr /\ disk' = r.disk /\ dhdr' = r.dhdr
  /\ life' = IF Failed(r) THEN "failed" ELSE "open"
  /\ last' = Returned("open", 0, 0, r, <<>>, <<>>)

Open ==
  /\ life = "new"
  /\ Opened(headerOpen(M(FALSE)))
  /\ UNCHANGED <<g, scan, nw, okw, shadow, grown, disk0, dhdr0, cc, pl, scanB>>

\* qcow2.Guest: guestImpl.open, and refcountsImpl.open which starts the
\* free-cluster goroutine.
Guest ==
  /\ life = "open"
  /\ g' = [l1Position |-> l1Offset(M(FALSE)), size |-> size(M(FALSE))]
  /\ scan' = rcOpen(M(FALSE)).scan
  /\ life' = "guest"
  /\ last' = [NoCall EXCEPT !.op = "guest"]
  /\ UNCHANGED <<disk, dhdr, hdr, nw, okw, shadow, grown, disk0, dhdr0, cc, pl, scanB>>

\* guestImpl.Size
Size ==
  /\ life = "guest"
  /\ last' = [NoCall EXCEPT !.op = "size", !.n = g.size]
  /\ UNCHANGED <<disk, dhdr, hdr, g, scan, life, nw, okw, shadow, grown, disk0, dhdr0, cc, pl, scanB>>

\* guestImpl.ReadAt
HasRead(off, len, r) ==
  /\ last' = [Returned("read", off, len, r, r.data, <<>>) EXCEPT
                !.done = IF Failed(r) THEN handled(M(FALSE), "r", [i \in 1..len |-> 0], off)
                         ELSE r.ret]
  /\ Left(r)

Read ==
  /\ life = "guest"
  /\ \E q \in ReadSet(g.size) : HasRead(q[1], q[2], guestReadAt(M(FALSE), q[2], q[1]))
  /\ UNCHANGED <<g, life, nw, okw, shadow, grown, disk0, dhdr0, cc, pl, scanB>>

\* guestImpl.WriteAt
HasWritten(off, p, rcs, r) ==
  /\ last' = [Returned("write", off, Len(p), r, p, PreWrite(off, p, rcs)) EXCEPT
                !.done = IF Failed(r) THEN handled(M(r.eager), "w", p, off) ELSE r.ret]
  /\ Left(r)
  /\ okw' = (okw /\ ~Failed(r))
  /\ grown' = grown + r.grew
  /\ shadow' = IF Failed(r) THEN shadow
               ELSE [b \in DOMAIN shadow |->
                       IF b >= off /\ b < off + Len(p) THEN p[b - off + 1] ELSE shadow[b]]

WriteWith(rcs) ==
  \E q \in WriteSet(g.size), eager \in BOOLEAN :
    HasWritten(q[1], q[2], rcs, guestWriteAt(M(eager), q[2], q[1]))

Write ==
  /\ life = "guest" /\ nw < MaxWrites
  /\ WriteWith(Refcounts)
  /\ nw' = nw + 1
  /\ UNCHANGED <<g, life, disk0, dhdr0, cc, pl, scanB>>

\* qcow2.Snapshots
HasListed(r) ==
  /\ last' = Returned("snapshots", 0, 0, [r EXCEPT !.ret = IF Failed(r) THEN 0 ELSE Len(r.ret)],
                      IF Failed(r) THEN <<>> ELSE r.ret, <<>>)
  /\ Left(r)

Snapshots ==
  /\ life \in {"open", "guest"}
  /\ HasListed(readSnapshots(M(FALSE)))
  /\ UNCHANGED <<g, life, nw, okw, shadow, grown, disk0, dhdr0, cc, pl, scanB>>

\* qcow2.Close: returns nil and does nothing else.
Close ==
  /\ life \in {"open", "guest"}
  /\ last' = [NoCall EXCEPT !.op = "close"]
  /\ UNCHANGED <<disk, dhdr, hdr, g, scan, life, nw, okw, shadow, grown, disk0, dhdr0, cc, pl, scanB>>

\* guestImpl.Close: refcountsImpl.close stops the goroutine and rethrows its
\* error; whether a goroutine that was about to fail gets to fail first is
\* up to the scheduler.
GuestClose ==
  /\ life = "guest"
  /\ \E eager \in BOOLEAN :
       last' = [NoCall EXCEPT
                  !.op = "guestclose",
                  !.err = IF (IF eager THEN ScanRun(M(FALSE)).scan ELSE scan).phase = "dead"
                          THEN "PipelineFailure" ELSE ""]
  /\ scan' = [phase |-> "dead", cursor |-> 0, pending |-> 0 - 1]
  /\ life' = "closed"
  /\ UNCHANGED <<disk, dhdr, hdr, g, nw, okw, shadow, grown, disk0, dhdr0, cc, pl, scanB>>

\* The free-cluster goroutine is scheduled and runs up to its next send.
ScanAhead ==
  /\ life \in {"guest", "refcounts"}
  /\ scan.phase \in {"fast", "slow"} /\ scan.pending = 0 - 1
  /\ scan' = ScanRun(M(FALSE)).scan
  /\ last' = [NoCall EXCEPT !.op = "scan"]
  /\ UNCHANGED <<disk, dhdr, hdr, g, life, nw, okw, shadow, grown, disk0, dhdr0, cc, pl, scanB>>

\* ------------------------------------------- the refcount manager alone
\* Images for a refcount manager driven through its own interface: an empty
\* guest disk whose container has used clusters U besides its metadata.
\* Holes: one refcount block (clusters 0..7), clusters 8.. have none yet.
Holes(U) ==
  [ver |-> 3, order |-> 4, autoclear |-> 0, exts |-> <<>>, size |-> 4 * ImgCS, l1Size |-> 2,
   l1c |-> 1, rt |-> 3, rtc |-> 1, blocks |-> <<2>>, rc |-> Used((0..3) \cup U),
   pokes |-> {}, content |-> <<>>, nsnap |-> 0, snapc |-> 0]

\* Second: a second refcount block at cluster 8; the table is full, so the
\* clusters from 16 on need a larger table.
Second(U) ==
  [ver |-> 3, order |-> 4, autoclear |-> 0, exts |-> <<>>, size |-> 4 * ImgCS, l1Size |-> 2,
   l1c |-> 1, rt |-> 3, rtc |-> 1, blocks |-> <<2, 8>>, rc |-> Used((0..8) \cup U),
   pokes |-> {}, content |-> <<>>, nsnap |-> 0, snapc |-> 0]

\* Wide: 64-bit refcounts, two to a block; a table of four clusters
\* (2..5), six blocks (6..11) for clusters 0..11, none for 12..15.
Wide ==
  [ver |-> 3, order |-> 6, autoclear |-> 0, exts |-> <<>>, size |-> 4 * ImgCS, l1Size |-> 2,
   l1c |-> 1, rt |-> 2, rtc |-> 4, blocks |-> <<6, 7, 8, 9, 10, 11>>, rc |-> Used(0..11),
   pokes |-> {}, content |-> <<>>, nsnap |-> 0, snapc |-> 0]

\* Narrow: 2-bit refcounts, four to a byte, lowest bits first; one block
\* (64 clusters) whose first byte gives clusters 0, 2 and 3 the refcount 1
\* and cluster 1 the refcount 3, the largest of that width.
Narrow ==
  [ver |-> 3, order |-> 1, autoclear |-> 0, exts |-> <<>>, size |-> 4 * ImgCS, l1Size |-> 2,
   l1c |-> 1, rt |-> 3, rtc |-> 1, blocks |-> <<2>>, rc |-> Used({}),
   pokes |-> {<<2 * ImgCS, <<1 + 3 * 4 + 1 * 16 + 1 * 64>>>>}, content |-> <<>>,
   nsnap |-> 0, snapc |-> 0]

\* Quad: 32-bit refcounts, four to a block; the block of clusters 0..3 at
\* cluster 1, the table (one cluster, two entries) at cluster 3, none for
\* clusters 4..7.
Quad ==
  [ver |-> 3, order |-> 5, autoclear |-> 0, exts |-> <<>>, size |-> 4 * ImgCS, l1Size |-> 2,
   l1c |-> 2, rt |-> 3, rtc |-> 1, blocks |-> <<1>>, rc |-> Used(0..3),
   pokes |-> {}, content |-> <<>>, nsnap |-> 0, snapc |-> 0]

\* Legacy: a version 2 image with a full table, whose header has an
\* extension.
Legacy == [Second(9..15) EXCEPT !.ver = 2, !.exts = <<Unknown>>]

\* Snap is the image in which a mapping table follows the refcount table.
RcImages ==
  {Holes({}), Holes({4, 6}), Holes({6}), Holes(4..7), Second(9..13), Second(9..15), Wide,
   Narrow, Snap, Quad, Legacy}

\* After openHeader and refcountsImpl.open on one of these images.
InitRcOn(d) ==
  /\ disk = ImgDisk(d) /\ dhdr = ImgHeader(d)
  /\ disk0 = disk /\ dhdr0 = dhdr
  /\ hdr = headerOpen(Mach(disk, dhdr, NilHeader, [l1Position |-> 0, size |-> 0], NoScan,
                            FALSE)).hdr
  /\ g = [l1Position |-> 0, size |-> 0]
  /\ scan = rcOpen(Mach(disk, dhdr, hdr, g, NoScan, FALSE)).scan
  /\ life = "refcounts" /\ last = NoCall
  /\ nw = 0 /\ okw = TRUE /\ grown = 0
  /\ shadow = <<>>
  /\ cc = NoThreads /\ pl = NoPipe /\ scanB = NoScan

InitRc == \E d \in RcImages : InitRcOn(d)

\* refcountsImpl.allocate
HasAllocated(n, r) ==
  /\ last' = Returned("allocate", 0, n, r, <<>>, [rcs |-> Refcounts])
  /\ Left(r)
  /\ grown' = grown + r.grew

RcAllocate ==
  /\ life = "refcounts" /\ nw < MaxCalls
  /\ \E n \in (1..MaxAlloc) \cup {LongRun}, eager \in BOOLEAN :
       HasAllocated(n, allocate(M(eager), n))
  /\ nw' = nw + 1
  /\ UNCHANGED <<g, life, okw, shadow, disk0, dhdr0, cc, pl, scanB>>

\* refcountsImpl.increment and decrement, on a cluster of the image (in use,
\* free under a block, or without a block), on the first cluster of the
\* last allocation, or on a cluster past the refcount table (the first one
\* and one a block further).  The record keeps the range the call before
\* handed out (alloc) and the refcount the table held for the cluster (was:
\* 0 for a cluster the table has no entry for).
Stored(c) == IF mustGrow(M(FALSE), c) THEN 0 ELSE RefcountOf(M(FALSE), c)

HasCounted(op, c, r) ==
  /\ last' = Returned(op, c, 0, r, <<>>,
                      [rcs |-> Refcounts, was |-> Stored(c),
                       alloc |-> IF last.op = "allocate" /\ last.err = ""
                                 THEN last.n..(last.n + last.len - 1) ELSE {}])
  /\ Left(r)

RcTargets ==
  {1, 5, 9, max(M(FALSE)), max(M(FALSE)) + blockEntries(M(FALSE))}
  \cup (IF last.op = "allocate" /\ last.err = "" THEN {last.n} ELSE {})

RcIncrement ==
  /\ life = "refcounts" /\ nw < MaxCalls
  /\ \E c \in RcTargets : HasCounted("increment", c, increment(M(FALSE), c))
  /\ nw' = nw + 1
  /\ UNCHANGED <<g, life, okw, shadow, grown, disk0, dhdr0, cc, pl, scanB>>

RcDecrement ==
  /\ life = "refcounts" /\ nw < MaxCalls
  /\ \E c \in RcTargets : HasCounted("decrement", c, decrement(M(FALSE), c))
  /\ nw' = nw + 1
  /\ UNCHANGED <<g, life, okw, shadow, grown, disk0, dhdr0, cc, pl, scanB>>

\* refcountsImpl.used: the pairs it sends are the data of the record.
HasUsed(u) ==
  last' = [NoCall EXCEPT !.op = "used", !.err = u.err, !.data = u.items, !.n = Len(u.items)]

RcUsed ==
  /\ life = "refcounts"
  /\ HasUsed(used(M(FALSE)))
  /\ UNCHANGED <<disk, dhdr, hdr, g, scan, life, nw, okw, shadow, grown, disk0, dhdr0, cc, pl, scanB>>

NextRc == RcAllocate \/ RcIncrement \/ RcDecrement \/ RcUsed \/ ScanAhead

SpecRc == InitRc /\ [][NextRc]_vars

\* --------------------------------------------- allocRefcountBlock alone
\* refcountsImpl.allocRefcountBlock called for clusters that have a block in
\* some images and none in others (8 and 12 are the first cluster of a block
\* range, 9 is not), and for the first cluster past the table.
BlockTargets == {8, 9, 12, max(M(FALSE))}

HasAllocatedBlock(idx, r) ==
  /\ last' = Returned("allocRefcountBlock", idx, 0, r, <<>>, [rcs |-> Refcounts])
  /\ Left(r)
  /\ grown' = grown + r.grew

RcAllocateBlock ==
  /\ life = "refcounts" /\ nw < MaxCalls
  /\ \E idx \in BlockTargets, eager \in BOOLEAN :
       HasAllocatedBlock(idx, allocRefcountBlock(M(eager), idx))
  /\ nw' = nw + 1
  /\ UNCHANGED <<g, life, okw, shadow, disk0, dhdr0, cc, pl, scanB>>

NextBlock == RcAllocateBlock \/ RcAllocate \/ ScanAhead

SpecBlock == InitRc /\ [][NextBlock]_vars

\* ------------------------------------------------ one refcount in a block
\* refcountsImpl.write and refcountsImpl.read on the refcount block of an
\* image, for every refcount width the format has (order 1..6: 2, 4, 8, 16,
\* 32 and 64 bits).  The block holds zeros, ones in every bit, or one of two
\* patterns whose 32-bit and 64-bit slots hold values the model's integers
\* can keep.
MaxOrder == 6
MaxStores == 1

SlotPatterns ==
  {[i \in 1..ImgCS |-> 0], [i \in 1..ImgCS |-> 255],
   [i \in 1..ImgCS |-> <<0, 0, 0, 0, 18, 52, 86, 120>>[((i - 1) % 8) + 1]],
   [i \in 1..ImgCS |-> <<1, 35, 69, 103, 0, 154, 188, 222>>[((i - 1) % 8) + 1]]}

\* The image Narrow with refcounts of order r and a refcount block that
\* holds the bytes p.
SlotImage(r, p) == [Narrow EXCEPT !.order = r, !.pokes = {<<2 * ImgCS, p>>}]

InitSlot == \E r \in 1..MaxOrder, p \in SlotPatterns : InitRcOn(SlotImage(r, p))

\* The offset of the refcount block of the image.
SlotBlock == 2 * ImgCS

\* The values written: every value of a width below 8 bits, and for the
\* other widths the least, the greatest and values with different bytes,
\* as far as the model's integers keep them.
SlotValues(b) ==
  IF b < 8 THEN 0..(Pow2(b) - 1)
  ELSE {v \in {0, 1, 127, 128, 255, 256, 4660, 65535, 65536, 16909060, Huge - 1} :
          b >= 32 \/ v < Pow2(b)}
       \cup (IF b < 32 THEN {Pow2(b) - 1} ELSE {})

\* What refcountsImpl.read returns for each slot of the block.
SlotsRead(m) ==
  [j \in 0..(blockEntries(m) - 1) |-> rcRead([m EXCEPT !.err = ""], SlotBlock, j).ret]

\* write(block, count, rc) and then read(block, count): the record has the
\* slot (off), the value written (len) and the value read back (n), and what
\* every slot of the block read before and reads afterwards.
HasStored(count, rc, w) ==
  /\ last' = [Returned("store", count, rc, rcRead(w, SlotBlock, count), <<>>,
                        [slots |-> SlotsRead(M(FALSE)), bits |-> bits(M(FALSE))])
                EXCEPT !.data = SlotsRead(w)]
  /\ Left(w)

RcStore ==
  /\ life = "refcounts" /\ nw < MaxStores
  /\ \E count \in 0..(blockEntries(M(FALSE)) - 1), rc \in SlotValues(bits(M(FALSE))) :
       HasStored(count, rc, rcWrite(M(FALSE), SlotBlock, count, rc))
  /\ nw' = nw + 1
  /\ UNCHANGED <<g, life, okw, shadow, grown, disk0, dhdr0, cc, pl, scanB>>

NextSlot == RcStore

SpecSlot == InitSlot /\ [][NextSlot]_vars

\* ------------------------------------------- one guest, several goroutines
\* Images the goroutines write to: nothing allocated; unknown autoclear bits
\* to clear; clusters shared with a snapshot; a cluster that cannot be
\* resolved.
CcImages == {Fresh("A", 3, 4, 0, <<>>), Fresh("B", 3, 4, 9, <<Unknown>>), Snap, Packed}

\* The requests of the goroutines: writes inside guest clusters 0 and 1, a
\* write of zeros to guest cluster 2, a write across clusters 0 and 1, a read
\* of clusters 0 and 1.
CcRequests ==
  {[op |-> "w", off |-> 1, p |-> <<1, 2>>], [op |-> "w", off |-> ImgCS + 2, p |-> <<7>>],
   [op |-> "w", off |-> 2 * ImgCS, p |-> <<0, 0>>], [op |-> "w", off |-> ImgCS - 1, p |-> <<3, 4>>],
   [op |-> "r", off |-> 0, p |-> [i \in 1..(2 * ImgCS) |-> 0]]}

InitCc ==
  \E d \in CcImages :
    /\ disk = ImgDisk(d) /\ dhdr = ImgHeader(d)
    /\ disk0 = disk /\ dhdr0 = dhdr
    /\ hdr = headerOpen(Mach(disk, dhdr, NilHeader, [l1Position |-> 0, size |-> 0], NoScan,
                              FALSE)).hdr
    /\ g = [l1Position |-> l1Offset(Mach(disk, dhdr, hdr, [l1Position |-> 0, size |-> 0],
                                         NoScan, FALSE)),
            size |-> size(Mach(disk, dhdr, hdr, [l1Position |-> 0, size |-> 0], NoScan, FALSE))]
    /\ scan = rcOpen(Mach(disk, dhdr, hdr, g, NoScan, FALSE)).scan
    /\ life = "guest" /\ last = NoCall
    /\ nw = 0 /\ okw = TRUE /\ grown = 0
    /\ shadow = d.content
    /\ cc = NoThreads /\ pl = NoPipe /\ scanB = NoScan

\* sync.RWMutex: RLock waits while a writer holds the mutex, Lock waits
\* while anyone holds it.
canRLock(mu, t) == mu.w = 0

\* A Lock that waits for nobody.
canLockAlways(mu, t) == TRUE

canLock(mu, t) == mu.w = 0 /\ mu.r = {}

\* The entry writeCluster takes the offset of the data from: the writable
\* entry, not the one readCluster resolved.
storeEntryResolved(res, l2) == res

storeEntry(res, l2) == l2

\* A goroutine of the guest took a step that left machine r.
Stepped(t, r, new, mu) ==
  /\ Left(r)
  /\ grown' = grown + r.grew
  /\ cc' = [mu |-> mu, th |-> [cc.th EXCEPT ![t] = new], actor |-> t]
  /\ UNCHANGED <<g, life, last, nw, okw, shadow, disk0, dhdr0, pl, scanB>>

\* The segment perCluster hands to f next.
Length(th) == Min2(CS(M(FALSE)) - th.offset, Len(th.rest))

Segment(th) == SubSeq(th.rest, 1, Length(th))

\* BacktraceWrap: the call returns the error, and n = 0.
Thrown(th, e) == [th EXCEPT !.pc = "done", !.err = e, !.n = 0]

\* perCluster after f returned: the next segment, or the end of the call.
Advanced(th) ==
  IF Length(th) = Len(th.rest)
  THEN [th EXCEPT !.pc = "done", !.rest = <<>>, !.done = @ + Length(th),
                  !.n = th.done + Length(th)]
  ELSE [th EXCEPT !.pc = "RLock", !.rest = SubSeq(@, Length(th) + 1, Len(@)),
                  !.idx = @ + 1, !.offset = 0, !.done = @ + Length(th)]

\* guestImpl.ReadAt, guestImpl.WriteAt: the call up to the first segment.
Started(q) ==
  IF outOfBounds(M(FALSE), q.off, Len(q.p)) THEN Thrown(Idle, "OutOfBounds")
  ELSE [Idle EXCEPT !.pc = "RLock", !.op = q.op, !.off = q.off, !.p = q.p, !.rest = q.p,
                    !.idx = q.off \div CS(M(FALSE)), !.offset = q.off % CS(M(FALSE))]

Begin(t) ==
  /\ cc.th[t].pc = "idle"
  /\ \E q \in CcRequests :
       Stepped(t, M(FALSE), [Started(q) EXCEPT !.op = q.op, !.off = q.off, !.p = q.p], cc.mu)

\* readCluster: g.RLock()
RLock(t) ==
  /\ cc.th[t].pc = "RLock" /\ canRLock(cc.mu, t)
  /\ Stepped(t, M(FALSE), [cc.th[t] EXCEPT !.pc = "getL2"], [cc.mu EXCEPT !.r = @ \cup {t}])

\* readCluster: l2 = g.getL2(idx, false); a throw runs the deferred RUnlock.
Resolved(t, r) ==
  IF Failed(r) THEN Stepped(t, r, Thrown(cc.th[t], r.err), [cc.mu EXCEPT !.r = @ \ {t}])
  ELSE Stepped(t, r, [cc.th[t] EXCEPT !.pc = "RUnlock", !.res = r.ret], cc.mu)

Resolve(t) ==
  /\ cc.th[t].pc = "getL2"
  /\ Resolved(t, getL2(M(FALSE), cc.th[t].idx, FALSE))

\* readCluster: the deferred g.RUnlock()
RUnlock(t) ==
  /\ cc.th[t].pc = "RUnlock"
  /\ Stepped(t, M(FALSE), [cc.th[t] EXCEPT !.pc = "readByL2"], [cc.mu EXCEPT !.r = @ \ {t}])

\* readCluster: g.readByL2(p, l2, off).  A read has its segment; a write
\* compares it with what it is to write.
Fetched(t, r) ==
  IF Failed(r) THEN Stepped(t, r, Thrown(cc.th[t], r.err), cc.mu)
  ELSE IF cc.th[t].op = "r"
  THEN Stepped(t, r, Advanced([cc.th[t] EXCEPT !.data = @ \o r.ret]), cc.mu)
  ELSE IF r.ret = Segment(cc.th[t]) THEN Stepped(t, r, Advanced(cc.th[t]), cc.mu)
  ELSE Stepped(t, r, [cc.th[t] EXCEPT !.pc = "Lock"], cc.mu)

Fetch(t) ==
  /\ cc.th[t].pc = "readByL2"
  /\ Fetched(t, readByL2(M(FALSE), Length(cc.th[t]), cc.th[t].res, cc.th[t].offset))

\* writeCluster: g.Lock()
Lock(t) ==
  /\ cc.th[t].pc = "Lock" /\ canLock(cc.mu, t)
  /\ Stepped(t, M(FALSE), [cc.th[t] EXCEPT !.pc = "autoclear"], [cc.mu EXCEPT !.w = t])

\* writeCluster: g.header.autoclear(); a throw runs the deferred Unlock.
Autocleared(t, r) ==
  IF Failed(r) THEN Stepped(t, r, Thrown(cc.th[t], r.err), [cc.mu EXCEPT !.w = 0])
  ELSE Stepped(t, r, [cc.th[t] EXCEPT !.pc = "getL2w"], cc.mu)

Autoclear(t) ==
  /\ cc.th[t].pc = "autoclear"
  /\ Autocleared(t, autoclear(M(FALSE)))

\* writeCluster: l2 = g.getL2(idx, true); a throw runs the deferred Unlock.
Mapped(t, r) ==
  IF Failed(r) THEN Stepped(t, r, Thrown(cc.th[t], r.err), [cc.mu EXCEPT !.w = 0])
  ELSE Stepped(t, r, [cc.th[t] EXCEPT !.pc = "Unlock", !.l2 = r.ret], cc.mu)

Map(t) ==
  /\ cc.th[t].pc = "getL2w"
  /\ \E eager \in BOOLEAN : Mapped(t, getL2(M(eager), cc.th[t].idx, TRUE))

\* writeCluster: the deferred g.Unlock()
Unlock(t) ==
  /\ cc.th[t].pc = "Unlock"
  /\ Stepped(t, M(FALSE), [cc.th[t] EXCEPT !.pc = "WriteAt"], [cc.mu EXCEPT !.w = 0])

\* writeCluster: g.io().WriteAt(l2.offset()+int64(off), p)
Written(t, r) ==
  IF Failed(r) THEN Stepped(t, r, Thrown(cc.th[t], r.err), cc.mu)
  ELSE Stepped(t, r, Advanced([cc.th[t] EXCEPT !.wrote = @ \cup {cc.th[t].idx}]), cc.mu)

Store(t) ==
  /\ cc.th[t].pc = "WriteAt"
  /\ Written(t, WriteAt(M(FALSE),
                        entryOffset(storeEntry(cc.th[t].res, cc.th[t].l2)) + cc.th[t].offset,
                        Segment(cc.th[t])))

NextCc ==
  \/ \E t \in Threads :
       \/ Begin(t) \/ RLock(t) \/ Resolve(t) \/ RUnlock(t) \/ Fetch(t)
       \/ Lock(t) \/ Autoclear(t) \/ Map(t) \/ Unlock(t) \/ Store(t)
  \/ ScanAhead

SpecCc == InitCc /\ [][NextCc]_vars

\* ------------------------------------------------ the pipeline by itself
\* The pipeline of one refcount manager (done, wait, mut, err), the channels
\* of its two goroutines and the goroutine that calls the manager.  closes
\* counts the close(p.done) executed; closing a closed channel is a run-time
\* panic, which is no exc.Throwable and ends the process (crashed).  The
\* container is left out: what a read of it gives is any of the outcomes.
\* F is the goroutine of fastScan (fch its channel), S the one of
\* findFreeClusters (ch its channel, threw: it has thrown, past: the calls
\* of U that had returned by then), U the caller (op
\* the call it is in or was in last, res and ret what that call returned,
\* uses the calls so far).
MaxItems == 2
MaxUses == 3

Outcomes == {"used", "free", "error"}

\* NewPipeline and refcountsImpl.open: findFreeClusters has called pipe.Go.
StartPipe ==
  [on |-> TRUE, closes |-> 0, crashed |-> FALSE, err |-> "", mut |-> "", wait |-> 1,
   fch |-> "open", ch |-> "open",
   F |-> [pc |-> "none", rc |-> 0, n |-> 0],
   S |-> [pc |-> "start", i |-> 0, n |-> 0, threw |-> FALSE, past |-> 0],
   U |-> [pc |-> "idle", op |-> "none", res |-> "none", ret |-> 0, uses |-> 0]]

InitPipe ==
  /\ disk = ImgDisk(Holes({})) /\ dhdr = ImgHeader(Holes({}))
  /\ disk0 = disk /\ dhdr0 = dhdr
  /\ hdr = NilHeader /\ g = [l1Position |-> 0, size |-> 0]
  /\ scan = NoScan /\ life = "pipeline" /\ last = NoCall
  /\ nw = 0 /\ okw = TRUE /\ grown = 0
  /\ shadow = <<>>
  /\ cc = NoThreads /\ scanB = NoScan
  /\ pl = StartPipe

Piped(new) ==
  /\ pl' = new
  /\ UNCHANGED <<disk, dhdr, hdr, g, scan, life, last, nw, okw, shadow, grown, disk0, dhdr0, cc,
                 scanB>>

Running == life = "pipeline" /\ ~pl.crashed

\* close(p.done)
closeDone(p) == [p EXCEPT !.closes = @ + 1, !.crashed = (p.closes >= 1)]

\* Pipeline.Stop, under the mutex.
stopped(p) == IF p.err = "" THEN closeDone(p) ELSE p

\* Pipeline.Go, the handler of Catch, under the mutex.
caught(p) == IF p.err = "" THEN closeDone([p EXCEPT !.err = "IoFailure"]) ELSE p

\* findFreeClusters: r.fastScan(pipe, false), which calls pipe.Go.
ScanStart ==
  /\ Running /\ pl.S.pc = "start"
  /\ Piped([pl EXCEPT !.wait = @ + 1, !.F.pc = "read", !.S.pc = "scan"])

\* fastScan: the table and the blocks are read and the next refcount is
\* ready to send, or the read throws, or the table is at its end.
FastRead ==
  /\ Running /\ pl.F.pc = "read"
  /\ \/ \E o \in Outcomes :
          /\ o # "error" => pl.F.n < MaxItems
          /\ Piped(IF o = "error" THEN [pl EXCEPT !.fch = "closed", !.F.pc = "lock"]
                   ELSE [pl EXCEPT !.F.pc = "send", !.F.n = @ + 1,
                                   !.F.rc = IF o = "free" THEN 0 ELSE 1])
     \/ Piped([pl EXCEPT !.fch = "closed", !.F.pc = "exit"])

\* fastScan, the select: the refcount goes to findFreeClusters, which leaves
\* its loop at the first 0.
FastSend ==
  /\ Running /\ pl.F.pc = "send" /\ pl.S.pc = "scan"
  /\ Piped([pl EXCEPT !.F.pc = "read", !.S.pc = IF pl.F.rc = 0 THEN "probe" ELSE "scan"])

\* fastScan, the select: done is closed.
FastStopped ==
  /\ Running /\ pl.F.pc = "send" /\ pl.closes > 0
  /\ Piped([pl EXCEPT !.fch = "closed", !.F.pc = "exit"])

\* findFreeClusters: the channel of fastScan is closed.
ScanRangeEnd ==
  /\ Running /\ pl.S.pc = "scan" /\ pl.fch = "closed"
  /\ Piped([pl EXCEPT !.S.pc = "probe"])

\* findFreeClusters: r.refcount(i)
ScanProbe ==
  /\ Running /\ pl.S.pc = "probe"
  /\ \E o \in Outcomes :
       /\ o # "error" => pl.S.n < MaxItems
       /\ Piped(CASE o = "error" ->
                       [pl EXCEPT !.ch = "closed", !.S.pc = "lock", !.S.threw = TRUE,
                                  !.S.past = IF pl.U.pc = "idle" THEN pl.U.uses
                                             ELSE pl.U.uses - 1]
                  [] o = "free" -> [pl EXCEPT !.S.pc = "offer", !.S.n = @ + 1]
                  [] OTHER -> [pl EXCEPT !.S.i = @ + 1, !.S.n = @ + 1])

\* findFreeClusters, the select: the cluster goes to findFreeSequence, and
\* allocate(1) returns it.
ScanSend ==
  /\ Running /\ pl.S.pc = "offer" /\ pl.U.pc = "recv"
  /\ Piped([pl EXCEPT !.S.pc = "probe", !.S.i = @ + 1,
                      !.U.pc = "idle", !.U.res = "ok", !.U.ret = pl.S.i])

\* findFreeClusters, the select: done is closed.
ScanStopped ==
  /\ Running /\ pl.S.pc = "offer" /\ pl.closes > 0
  /\ Piped([pl EXCEPT !.ch = "closed", !.S.pc = "exit"])

\* Pipeline.Go, the handler of Catch: p.mut.Lock()
CatchLock(x) ==
  /\ Running /\ pl[x].pc = "lock" /\ pl.mut = ""
  /\ Piped([pl EXCEPT !.mut = x, ![x].pc = "catch"])

\* Pipeline.Go, the handler of Catch and the deferred Unlock.
Catch(x) ==
  /\ Running /\ pl[x].pc = "catch"
  /\ Piped([caught(pl) EXCEPT !.mut = "", ![x].pc = "exit"])

\* Pipeline.Go: the deferred p.wait.Done()
Exit(x) ==
  /\ Running /\ pl[x].pc = "exit"
  /\ Piped([pl EXCEPT !.wait = @ - 1, ![x].pc = "gone"])

\* The caller enters allocate(1) (findFreeSequence), refcountsImpl.close
\* (WaitThrow), Pipeline.Wait or Pipeline.Stop.
Use ==
  /\ Running /\ pl.U.pc = "idle" /\ pl.U.uses < MaxUses
  /\ \E op \in {"allocate", "WaitThrow", "Wait", "Stop"} :
       Piped([pl EXCEPT !.U = [pc |-> IF op = "allocate" THEN "recv" ELSE "lock", op |-> op,
                               res |-> "none", ret |-> 0, uses |-> pl.U.uses + 1]])

\* findFreeSequence: the channel of the free clusters is closed.
RangeEnd ==
  /\ Running /\ pl.U.pc = "recv" /\ pl.ch = "closed"
  /\ Piped([pl EXCEPT !.U.pc = "lock"])

\* Pipeline.Stop: p.mut.Lock()
StopLock ==
  /\ Running /\ pl.U.pc = "lock" /\ pl.mut = ""
  /\ Piped([pl EXCEPT !.mut = "U", !.U.pc = "stop"])

\* Pipeline.Stop and the deferred Unlock.
Stop ==
  /\ Running /\ pl.U.pc = "stop"
  /\ Piped([stopped(pl) EXCEPT
              !.mut = "",
              !.U.pc = IF pl.U.op = "Stop" THEN "idle" ELSE "wait",
              !.U.res = IF pl.U.op = "Stop" THEN "ok" ELSE "none"])

\* Pipeline.Wait and WaitThrow: p.wait.Wait(), then the error is returned
\* or rethrown; under findFreeSequence a WaitThrow that returns is followed
\* by "return 0".
Wait ==
  /\ Running /\ pl.U.pc = "wait" /\ pl.wait = 0
  /\ Piped([pl EXCEPT !.U.pc = "idle", !.U.res = IF pl.err # "" THEN "err" ELSE "ok"])

NextPipe ==
  \/ ScanStart \/ FastRead \/ FastSend \/ FastStopped
  \/ ScanRangeEnd \/ ScanProbe \/ ScanSend \/ ScanStopped
  \/ \E x \in {"F", "S"} : CatchLock(x) \/ Catch(x) \/ Exit(x)
  \/ Use \/ RangeEnd \/ StopLock \/ Stop \/ Wait

SpecPipe == InitPipe /\ [][NextPipe]_vars

\* ------------------------------------------- two guests of one container
\* qcow2.Guest called twice: each guestImpl gets a refcountsImpl of its own
\* (qcow2.refcounts), with a free-cluster goroutine of its own, and a lock
\* of its own; the header, and the container behind it, are the same.  The
\* calls of the two guests alternate, each a whole call.
Handles == {"A", "B"}

InitTwo == \E d \in {Fresh("A", 3, 4, 0, <<>>), Fresh("B", 3, 3, 8, <<>>)} : InitOn(d)

\* The machine a call through handle h works on.
MachOf(h, eager) == Mach(disk, dhdr, hdr, g, IF h = "A" THEN scan ELSE scanB, eager)

\* The container and the memory a call through handle h leaves behind.
LeftBy(h, r) ==
  /\ disk' = r.disk /\ dhdr' = r.dhdr /\ hdr' = r.hdr
  /\ scan' = IF h = "A" THEN r.scan ELSE scan
  /\ scanB' = IF h = "B" THEN r.scan ELSE scanB

\* qcow2.Guest, the second time: g.open(q.header, q.refcounts(), ...).
GuestB ==
  /\ life = "guest"
  /\ scanB' = rcOpen(M(FALSE)).scan
  /\ life' = "two"
  /\ last' = [NoCall EXCEPT !.op = "guest"]
  /\ UNCHANGED <<disk, dhdr, hdr, g, scan, nw, okw, shadow, grown, disk0, dhdr0, cc, pl>>

\* guestImpl.WriteAt through one of the two handles.
WrittenBy(h, off, p, r) ==
  /\ last' = Returned("write", off, Len(p), r, p, PreWrite(off, p, Refcounts))
  /\ LeftBy(h, r)
  /\ okw' = (okw /\ ~Failed(r))
  /\ grown' = grown + r.grew
  /\ shadow' = IF Failed(r) THEN shadow
               ELSE [b \in DOMAIN shadow |->
                       IF b >= off /\ b < off + Len(p) THEN p[b - off + 1] ELSE shadow[b]]

WriteTwo ==
  /\ life = "two" /\ nw < MaxWrites
  /\ \E h \in Handles, q \in WriteSet(g.size), eager \in BOOLEAN :
       WrittenBy(h, q[1], q[2], guestWriteAt(MachOf(h, eager), q[2], q[1]))
  /\ nw' = nw + 1
  /\ UNCHANGED <<g, life, disk0, dhdr0, cc, pl>>

\* The free-cluster goroutine of one of the two guests is scheduled and runs
\* up to its next send.
ScanAheadTwo ==
  /\ life = "two"
  /\ \E h \in Handles :
       /\ MachOf(h, FALSE).scan.phase \in {"fast", "slow"}
       /\ MachOf(h, FALSE).scan.pending = 0 - 1
       /\ LeftBy(h, ScanRun(MachOf(h, FALSE)))
  /\ last' = [NoCall EXCEPT !.op = "scan"]
  /\ UNCHANGED <<g, life, nw, okw, shadow, grown, disk0, dhdr0, cc, pl>>

NextTwo == Open \/ Guest \/ Write \/ ScanAhead \/ GuestB \/ WriteTwo \/ ScanAheadTwo

SpecTwo == InitTwo /\ [][NextTwo]_vars

Next == Open \/ Guest \/ Size \/ Read \/ Write \/ Snapshots \/ Close \/ GuestClose \/ ScanAhead

Spec == Init /\ [][Next]_vars

SpecPacked == InitPacked /\ [][Next]_vars

Spec32 == Init32 /\ [][Next]_vars

SpecSnap == InitSnap /\ [][Next]_vars

\* ------------------------------------------------------------ properties
\* The last call was a guest read or write that lies inside the disk.
InBounds == last.off + last.len <= g.size

\* The guest bytes of the last request, as the writes so far leave them.
Expected == [i \in 1..last.len |-> shadow[last.off + i - 1]]

\* C1: with one guest on a well-formed image, after any sequence of
\* successful write_at calls a read_at inside the disk succeeds and returns,
\* for every byte, what the last write covering it wrote (and what the image
\* held when no write covered it): a write's buffer reads back exactly.
ReadReturnsWritten ==
  last.op = "read" /\ okw /\ InBounds =>
    last.err = "" /\ last.n = last.len /\ last.data = Expected

\* A read across cluster boundaries after two successful writes, one of
\* which had to allocate.
ReadAfterWrites ==
  /\ last.op = "read" /\ okw /\ last.err = ""
  /\ nw = 2 /\ last.len > ImgCS /\ disk # disk0
  /\ \E i \in 1..last.len : last.data[i] = 3

\* The clusters an allocate call returned.
Allocated == last.n..(last.n + last.len - 1)

AllocateReturned == last.op = "allocate" /\ last.err = ""

\* C2: allocate(n) returns the first index of n consecutive clusters each
\* of which had refcount 0 before the call.
AllocateReturnsFreeRun ==
  AllocateReturned => \A c \in Allocated : c < NumClusters => last.pre.rcs[c] = 0

\* C3: after a successful allocate(n) every cluster of the returned range
\* has a refcount of at least 1, also when the call created refcount blocks
\* or grew the refcount table.
AllocatedAreReferenced ==
  AllocateReturned => \A c \in Allocated : RefcountOf(M(FALSE), c) >= 1

\* An allocate of several clusters that grew the refcount table.
AllocatedWithGrowth == AllocateReturned /\ last.grew > 0 /\ last.len > 1

\* What a write found at guest cluster idx, and the L2 entry it left.
Before(idx) == last.pre.cl[idx]

L2Now(idx) == getL2(M(FALSE), idx, FALSE).ret

\* The L2 entry of idx had a nonzero offset and bit 63 clear.
Shared(idx) == Before(idx).ok /\ ~entryNil(Before(idx).l2) /\ ~entryNoCow(Before(idx).l2)

\* The write changes the bytes of the cluster the entry of idx pointed to.
Changes(idx) ==
  Before(idx).seg # SubSeq(Before(idx).old, Before(idx).at + 1,
                           Before(idx).at + Len(Before(idx).seg))

\* The old bytes of the cluster overlaid with the bytes written.
Overlaid(f) ==
  [i \in 1..ImgCS |-> IF i > f.at /\ i <= f.at + Len(f.seg) THEN f.seg[i - f.at] ELSE f.old[i]]

\* The entry of idx now points, with bit 63 set, to a cluster that was free
\* before the write and holds the overlaid bytes; the old cluster lost one
\* reference.
MovedTo(idx, e) ==
  /\ entryNoCow(e) /\ ~entryNil(e) /\ entryOffset(e) % ImgCS = 0
  /\ InContainer(entryOffset(e), ImgCS)
  /\ last.pre.rcs[entryOffset(e) \div ImgCS] = 0
  /\ Bytes(M(FALSE), entryOffset(e), ImgCS) = Overlaid(Before(idx))
  /\ RefcountOf(M(FALSE), entryOffset(Before(idx).l2) \div ImgCS) = Before(idx).rc - 1

WriteReturned == last.op = "write" /\ last.err = ""

\* C4 as stated: after a write to a guest cluster whose L2 entry has a
\* nonzero offset and bit 63 clear, the entry holds a newly allocated cluster
\* with bit 63 set, the new cluster is the old bytes overlaid with the
\* written ones, and the old cluster's refcount is one less.
CowOnEveryWrite ==
  WriteReturned => \A idx \in DOMAIN last.pre.cl : Shared(idx) => MovedTo(idx, L2Now(idx))

\* C4 as the code has it: the same, for a write that changes the bytes of
\* the cluster, to an entry that has an offset (nonzero, zero bit clear) and
\* bit 63 clear.
CowOnChangingWrite ==
  WriteReturned =>
    \A idx \in DOMAIN last.pre.cl :
      Shared(idx) /\ ~entryZero(Before(idx).l2) /\ Changes(idx) => MovedTo(idx, L2Now(idx))

\* A write that changed part of a cluster shared with a snapshot.
CowHappened ==
  /\ WriteReturned
  /\ \E idx \in DOMAIN last.pre.cl :
       /\ Shared(idx) /\ ~entryZero(Before(idx).l2) /\ Changes(idx)
       /\ Before(idx).rc = 2 /\ Len(Before(idx).seg) < ImgCS

\* C5: once guest writes made the refcount table grow, every guest byte
\* written before and during the growth reads back, and the refcount table
\* offset of the header, in memory and in the container, is not the
\* original one.
GrowthKeepsData ==
  grown > 0 /\ okw =>
    /\ hdr.v2.RefcountTableOffset # dhdr0.v2.RefcountTableOffset
    /\ dhdr.v2.RefcountTableOffset # dhdr0.v2.RefcountTableOffset
    /\ (last.op = "read" /\ InBounds => last.err = "" /\ last.data = Expected)

\* The whole disk read after a write that grew the table.
ReadAfterGrowth ==
  /\ grown > 0 /\ okw /\ last.op = "read" /\ last.err = "" /\ last.len = g.size
  /\ \E i \in 1..last.len : last.data[i] = 7

\* The L1 and L2 words of guest cluster idx as the container holds them.
L1Word(idx) == Bytes(M(FALSE), g.l1Position + (idx \div (ImgCS \div 8)) * 8, 8)

L2Word(idx) == Bytes(M(FALSE), Low62(L1Word(idx)) + (idx % (ImgCS \div 8)) * 8, 8)

\* Guest cluster idx has a nil L1 entry, a nil L2 entry, or an L2 entry with
\* the zero bit.
ZeroMapped(idx) ==
  \/ Low62(L1Word(idx)) = 0
  \/ ~InContainer(Low62(L1Word(idx)) + (idx % (ImgCS \div 8)) * 8, 8)
  \/ Low62(L2Word(idx)) = 0
  \/ L2Word(idx)[8] % 2 = 1

\* C6: read_at returns zeros for every byte inside the disk whose guest
\* cluster has a nil L1 entry, a nil L2 entry or an L2 entry with the zero
\* bit; a read of an image never written returns only zeros.
UnmappedReadsZero ==
  last.op = "read" /\ last.err = "" =>
    \A i \in 1..last.len : ZeroMapped((last.off + i - 1) \div ImgCS) => last.data[i] = 0

\* A read over a cluster whose L2 entry has the zero bit and the offset of a
\* cluster holding other bytes, next to a mapped cluster.
ReadOverZeroBit ==
  /\ last.op = "read" /\ last.err = "" /\ last.len = g.size
  /\ \E idx \in Touched(last.off, last.len) :
       /\ Low62(L1Word(idx)) # 0 /\ L2Word(idx)[8] % 2 = 1 /\ Low62(L2Word(idx)) > 1
       /\ disk[Low62(L2Word(idx)) - 1] # 0
  /\ \E i \in 1..last.len : last.data[i] # 0

\* C7: a read_at or write_at with offset + length beyond the disk size fails
\* with the out-of-bounds error, reports 0 bytes and makes no container read
\* or write: nothing of the container, the header or the allocator changes.
OutOfBoundsTouchesNothing ==
  last.op \in {"read", "write"} /\ ~InBounds =>
    /\ last.err = "OutOfBounds" /\ last.n = 0
    /\ last.io = <<>> /\ last.nr = 0 /\ last.same

\* A write of four bytes starting two bytes before the end of the disk.
WroteOutOfBounds == last.op = "write" /\ ~InBounds /\ last.off < g.size /\ last.len = 4

\* C8: as long as no write_at was called, open, guest(), size(), read_at,
\* snapshots(), close and the free-cluster scanner leave every byte of the
\* container as it was.
ReadOnlyLeavesContainer ==
  nw = 0 => disk = disk0 /\ dhdr = dhdr0

\* A read after the scanner found a free cluster, no write_at so far, on an
\* image whose header has unknown autoclear bits.
ReadWhileScanning ==
  /\ nw = 0 /\ last.op = "read" /\ last.err = "" /\ scan.pending # 0 - 1
  /\ BitClear(hdr.v3.AutoclearFeatures, autoclearKnown) # 0

\* The autoclear field of a header cluster (0 in a version 2 header).
AutoclearField(h) ==
  IF h.v2.Version >= 3 /\ h.body[1].t = "v3" THEN h.body[1].v.AutoclearFeatures ELSE 0

Opened3 == life \in {"open", "guest", "closed"} /\ dhdr0.v2.Version >= 3

\* C9 as stated: open masks the unknown autoclear bits and rewrites the
\* header, so after open and before any guest write the autoclear field in
\* the container has the unknown bits cleared and the others preserved.
OpenClearsAutoclear ==
  Opened3 /\ nw = 0 =>
    AutoclearField(dhdr) = BitAnd(AutoclearField(dhdr0), autoclearKnown)

\* C9 as the code has it: open leaves the header in the container as it
\* was, unknown autoclear bits included; once a guest write has changed the
\* container, the autoclear field in the container has the unknown bits
\* cleared and the others preserved.
WriteClearsAutoclear ==
  Opened3 =>
    /\ nw = 0 => AutoclearField(dhdr) = AutoclearField(dhdr0)
    /\ disk # disk0 => AutoclearField(dhdr) = BitAnd(AutoclearField(dhdr0), autoclearKnown)

\* A guest write changed an image whose header had the bitmaps bit and an
\* unknown autoclear bit.
WroteWithUnknownBits ==
  /\ Opened3 /\ last.op = "write" /\ disk # disk0
  /\ BitAnd(AutoclearField(dhdr0), autoclearKnown) = featureBitmaps
  /\ BitClear(AutoclearField(dhdr0), autoclearKnown) # 0

\* The header cluster h with the unknown autoclear bits cleared.
Cleared(h) ==
  [h EXCEPT !.body[1].v.AutoclearFeatures = BitAnd(@, autoclearKnown)]

HeaderWrites == {i \in 1..Len(last.io) : last.io[i][1] = 0}

\* C10: a write that reaches autoclear() while the mask in memory has bits
\* outside {bitmaps} first rewrites the header with exactly those bits
\* cleared, every other field kept; a write that reaches autoclear() with no
\* such bit does not write the header (unless it grows the refcount table).
AutoclearWritesOnce ==
  last.op = "write" /\ last.io # <<>> /\ dhdr0.v2.Version >= 3 =>
    /\ BitClear(hdr.v3.AutoclearFeatures, autoclearKnown) = 0
    /\ last.pre.unknown # 0 =>
         /\ last.io[1][1] = 0
         /\ last.grew = 0 => HeaderWrites = {1} /\ dhdr = Cleared(dhdr0)
    /\ last.pre.unknown = 0 /\ last.grew = 0 => HeaderWrites = {}

\* The second changing write on an image whose header had unknown bits.
SecondChangingWrite ==
  /\ last.op = "write" /\ last.io # <<>> /\ last.pre.unknown = 0
  /\ BitClear(AutoclearField(dhdr0), autoclearKnown) # 0

\* The last call was the decrement that matches the allocation made by the
\* call before it, and it brought the refcount of the cluster back to 0.
Freed ==
  last.op = "decrement" /\ last.err = "" /\ last.off \in last.pre.alloc /\ last.n = 0

\* Some sequence of at most k allocate calls on the manager of machine m
\* returns a range that holds cluster c.
RECURSIVE returnable(_, _, _)
returnedBy(r, n, c, k) ==
  /\ ~Failed(r)
  /\ \/ c \in r.ret..(r.ret + n - 1)
     \/ k > 1 /\ returnable(r, c, k - 1)

returnable(m, c, k) ==
  \E n \in 1..MaxAlloc, eager \in BOOLEAN :
    returnedBy(allocate([m EXCEPT !.eager = eager], n), n, c, k)

\* C11 as stated: once the decrement matching an allocation brought the
\* refcount of c back to 0, a later allocate on the same refcount manager
\* can return c.
FreedIsReturnable == Freed => returnable(M(FALSE), last.off, MaxLater)

\* C11 as the code has it: the manager that handed c out probes increasing
\* indices only and no later allocate on it returns c; an allocate on a
\* refcount manager opened afterwards (whose scan starts at the first
\* cluster with refcount 0) can return c.
FreedReturnsAfterReopen ==
  Freed =>
    /\ ~returnable(M(FALSE), last.off, MaxLater)
    /\ returnable(rcOpen(M(FALSE)), last.off, MaxLater)

\* The first cluster of an allocation of several clusters was released.
FreedAllocated == Freed /\ Cardinality(last.pre.alloc) > 1

\* The clusters the refcount table can describe.
Describable == 0..(max(M(FALSE)) - 1)

\* The positions at which the last used() sent cluster c.
SentAt(c) == {i \in 1..Len(last.data) : last.data[i][1] = c}

\* C12: used() sends exactly the clusters whose refcount is not 0, each
\* once and with its refcount: no cluster whose refcount is 0, whether it has
\* a refcount block or not, and every cluster whose refcount is not 0.
UsedSendsNonzero ==
  last.op = "used" /\ last.err = "" =>
    /\ \A i \in 1..Len(last.data) :
         last.data[i][2] # 0 /\ last.data[i][2] = RefcountOf(M(FALSE), last.data[i][1])
    /\ \A c \in Describable : RefcountOf(M(FALSE), c) # 0 => Cardinality(SentAt(c)) = 1

Counted == last.op \in {"increment", "decrement"}

\* C13: increment(c) fails when c is unallocated (no refcount block, or a
\* stored refcount of 0) or when its refcount is 2^width - 1, decrement(c)
\* fails when c is unallocated; a failing call leaves every stored refcount
\* as it was, and a call that succeeds moves the refcount by exactly one
\* inside 0 .. 2^width - 1.
CountingFailsUnchanged ==
  Counted =>
    /\ last.pre.was = 0 => last.err # ""
    /\ last.op = "increment" /\ last.pre.was = maxRefcount(M(FALSE)) => last.err # ""
    /\ last.err # "" => last.same
    /\ last.err = "" /\ last.op = "increment" =>
         last.n = last.pre.was + 1 /\ last.n <= maxRefcount(M(FALSE))
    /\ last.err = "" /\ last.op = "decrement" => last.n = last.pre.was - 1 /\ last.n >= 0

\* The incompatible-features mask of a header cluster (none in version 2).
IncompatibleField(h) ==
  IF h.v2.Version >= 3 /\ h.body[1].t = "v3" THEN h.body[1].v.IncompatibleFeatures ELSE 0

\* C14: when the incompatible-features mask of the header has the dirty
\* bit, the corrupt bit or any other bit, open fails: it reports the
\* unsupported feature, no guest can be made of the container, and no byte
\* of the container was written.
OpenRejectsIncompatible ==
  life # "new" /\ IncompatibleField(dhdr0) # 0 =>
    /\ life = "failed" /\ last.op = "open" /\ last.err = "UnsupportedFeature"
    /\ last.io = <<>> /\ disk = disk0 /\ dhdr = dhdr0
    /\ ~ENABLED Guest

\* Open was refused for bit 4 alone, neither dirty nor corrupt.
RejectedUnknownBit ==
  life = "failed" /\ last.op = "open" /\ IncompatibleField(dhdr0) = 16

\* A read_at or write_at that returned an error.
Partial == last.op \in {"read", "write"} /\ last.err # ""

\* C15: when a read_at or write_at fails, the byte count returned with the
\* error is the total length of the cluster segments that were completely
\* handled before the failing cluster.
PartialCountReturned == Partial => last.n = last.done

\* C18: after close() returns on a container a Guest was made from, the
\* free-cluster goroutine of the Guest's refcount manager is neither running
\* nor blocked on a send: it was never started or it has ended.
CloseReleasesWorkers ==
  last.op = "close" /\ life = "guest" => scan.phase \in {"idle", "dead"}

\* C19: a refcount block is never visible partially described: whenever
\* allocRefcountBlock has written a table entry, or a grown table has become
\* the table of the header, the cluster of every block whose entry
\* allocRefcountBlock has written so far has refcount at least 1 when read
\* through the table, and so it is when the call has returned.
BlocksDescribedWhenLinked == ~last.bare /\ ~anyBare(M(FALSE), last.blk)

\* An allocate entered two blocks in the table, the second by recursion.
LinkedByRecursion ==
  /\ last.op = "allocate" /\ last.err = "" /\ Len(last.blk) >= 2
  /\ \E i \in 1..Len(last.br) : ~last.br[i].self

\* The most calls of allocRefcountBlock open at a time: the call for a
\* cluster and the call refNewCluster makes for the block of that cluster.
MaxDepth == 2

\* C21: the recursion allocRefcountBlock -> refNewCluster ->
\* allocRefcountBlock has bounded depth: every call returns (none is open
\* when the operation has returned) and never more than MaxDepth are open at
\* a time, blocks that are not self-describing and table growth inside the
\* recursion included.
RecursionBounded == last.depth = 0 /\ last.deep <= MaxDepth

\* An allocate recursed for a block that is not self-describing, and the
\* inner call grew the table; the allocate returned without error.
GrewInsideRecursion ==
  /\ last.op = "allocate" /\ last.err = "" /\ last.grew > 0
  /\ last.deep = MaxDepth /\ last.grewAt = MaxDepth
  /\ \E i \in 1..Len(last.br) : ~last.br[i].self

\* The clusters a growTable takes for the new table and the new blocks.
GrowthClusters(r) == r.start..(r.start + r.tableSize + r.newBlocks - 1)

\* Those of them that had a refcount when growTable began to write.
GrowthInUse(r) == {c \in GrowthClusters(r) : c < NumClusters /\ r.rcs[c] # 0}

GrownClustersCounted ==
  \A i \in 1..Len(last.gr) :
    last.gr[i].err = "" =>
      \A c \in GrowthClusters(last.gr[i]) : c < NumClusters => last.gr[i].post[c] = 1

\* The writes of a growTable, as positions in the list of the writes of the
\* call, and its write of the header among them.
GrowthWrites(r) == (r.ioFrom + 1)..r.ioTo
HeaderWrite(r) == {k \in GrowthWrites(r) : last.io[k][1] = 0}

\* Does write k of the call fall in cluster c (clusters of cs bytes)?
Touches(k, c, cs) ==
  last.io[k][1] \div cs <= c /\ c <= (last.io[k][1] + last.io[k][2] - 1) \div cs

\* The writes that populate the new table: the copy of the old entries, the
\* zeroing of the remainder, the zeroing and the link of each new block, and
\* one refcount for each cluster of the new table and each new block.
Populating(r) ==
  {<<r.start * r.cs, r.oldSize * r.cs>>,
   <<(r.start + r.oldSize) * r.cs, (r.tableSize - r.oldSize) * r.cs>>}
  \cup {<<(r.start + r.tableSize + b) * r.cs, r.cs>> : b \in 0..(r.newBlocks - 1)}
  \cup {<<r.start * r.cs + 8 * (r.start \div r.entries) + 8 * b, 8>> :
          b \in 0..(r.newBlocks - 1)}

OldTable(r) == r.oldIdx..(r.oldIdx + r.oldSize - 1)

\* C25: growTable preserves the existing refcounts: a cluster that is
\* neither of the old table nor taken for the new table and the new blocks
\* has, read through the new table afterwards, the refcount it had before
\* (no entry copied from the old table is overwritten by the link to a new
\* block), and each cluster of the old table has one less.
GrowthKeepsRefcounts ==
  \A i \in 1..Len(last.gr) :
    LET r == last.gr[i]
    IN  r.err = "" =>
          \A c \in 0..(NumClusters - 1) :
            /\ c \in OldTable(r) => r.post[c] = r.rcs[c] - 1
            /\ c \notin OldTable(r) \cup GrowthClusters(r) => r.post[c] = r.rcs[c]

\* A growTable completed on a container in which clusters besides the old
\* table had refcounts, and the old table had refcount 1.
GrewOverRefcounts ==
  \E i \in 1..Len(last.gr) :
    /\ last.gr[i].err = ""
    /\ \A c \in OldTable(last.gr[i]) : last.gr[i].rcs[c] = 1
    /\ \E c \in 0..(NumClusters - 1) :
         c \notin OldTable(last.gr[i]) /\ last.gr[i].rcs[c] # 0

\* The most doublings of the table size that keep the table in the
\* container.
MaxDoublings == 4

\* C26: growTable chooses a table size that is the old size doubled one or
\* more times, and a number of blocks such that every cluster of the new
\* table and every new block has an index strictly below the new max(),
\* tableSize * (clusterSize / 8) * blockEntries.
GrowthFitsNewTable ==
  \A i \in 1..Len(last.gr) :
    LET r == last.gr[i]
    IN  /\ \E k \in 1..MaxDoublings : r.tableSize = r.oldSize * Pow2(k)
        /\ r.newBlocks >= 1
        /\ \A c \in GrowthClusters(r) : c < r.tableSize * (r.cs \div 8) * r.entries

\* A growTable completed whose new table begins in the middle of the range
\* of a refcount block, and max() is what the new table gives.
GrewMidBlock ==
  \E i \in 1..Len(last.gr) :
    /\ last.gr[i].err = "" /\ last.gr[i].start % last.gr[i].entries # 0
    /\ last.gr[i].max = last.gr[i].tableSize * (last.gr[i].cs \div 8) * last.gr[i].entries

\* C27: for a cluster at or past max(), whose table slot is at or beyond the
\* end of the refcount table, refcount returns 0 whatever bytes follow the
\* table, increment and decrement fail and change nothing, and nothing is
\* read from the container: no table entry outside the table is looked at.
PastTableUnallocated ==
  Counted /\ last.off >= max(M(FALSE)) =>
    last.pre.was = 0 /\ last.err # "" /\ last.nr = 0 /\ last.same

\* C28: for every refcount width (2, 4, 8, 16, 32 and 64 bits), every slot
\* of a refcount block and every value below 2^width: after write(block,
\* slot, v), read(block, slot) returns v, and every other slot of the block
\* reads what it read before, the slots that share a byte with the written
\* one included.
StoredIsRead ==
  last.op = "store" =>
    /\ last.err = "" /\ last.n = last.len
    /\ \A j \in DOMAIN last.data : j # last.off => last.data[j] = last.pre.slots[j]

\* A refcount narrower than a byte was written with a value other than the
\* one it had, next to a slot of the same byte that holds a nonzero value.
StoredBesideNeighbour ==
  /\ last.op = "store" /\ last.pre.bits < 8
  /\ last.len # last.pre.slots[last.off]
  /\ \E j \in DOMAIN last.data :
       /\ j # last.off /\ (j * last.pre.bits) \div 8 = (last.off * last.pre.bits) \div 8
       /\ last.pre.slots[j] # 0

\* C29: the copy-on-write step of getEntry allocates the new cluster
\* (refcount 1), initialises it (the copy of the old cluster if the old
\* entry has an offset, zeros otherwise), writes the parent slot, and only
\* then decrements the old cluster: when the slot is written the new cluster
\* has refcount 1 and is initialised and the old cluster still has the
\* refcount it had, which is not 0, and after the step it has one less.
CowStepOrdered ==
  \A i \in 1..Len(last.cw) :
    LET c == last.cw[i]
    IN  /\ c.rcNew = 1 /\ c.init
        /\ hasOffset(c.old) => c.rcOld = c.before /\ c.before >= 1
        /\ hasOffset(c.old) /\ c.err = "" => c.after = c.before - 1
        /\ ~hasOffset(c.old) => c.after = c.before

\* A write copied a cluster that was shared, bytes other than zeros
\* included, and dereferenced the old one.
CowStepCopied ==
  /\ last.op = "write" /\ last.err = ""
  /\ \E i \in 1..Len(last.cw) :
       /\ hasOffset(last.cw[i].old) /\ last.cw[i].before >= 2
       /\ \E k \in 1..last.cw[i].cs : disk[last.cw[i].alloc + k - 1] # 0

\* C30: every L1 or L2 entry the library writes has the no-COW bit set, a
\* nonzero cluster-aligned offset, and the compressed and zero bits clear;
\* and the entry a writable fetch returns is writable (an offset, no-COW
\* set).
WrittenEntriesOwned ==
  /\ \A i \in 1..Len(last.cw) :
       LET e == last.cw[i].entry
       IN  /\ entryNoCow(e) /\ ~entryCompressed(e) /\ ~entryZero(e)
           /\ entryOffset(e) # 0 /\ entryOffset(e) % last.cw[i].cs = 0
  /\ \A i \in 1..Len(last.fw) : writable(last.fw[i])

\* A write fetched both an entry it had to write anew and one that was
\* writable as it was.
FetchedNewAndOld ==
  /\ last.op = "write" /\ last.err = "" /\ last.cw # <<>>
  /\ Len(last.fw) > Len(last.cw)

\* Where blockIdx lies from the first cluster of the range the block of idx
\* describes.
BlockDiff(b) == b.blockIdx - (b.idx - (b.idx % blockEntries(M(FALSE))))

InCritical(t) == cc.th[t].pc \in {"autoclear", "getL2w", "Unlock"}

\* Goroutine t is resolving L1/L2 for a read: between RLock and RUnlock.
InResolution(t) == cc.th[t].pc \in {"getL2", "RUnlock"}

LeaseExcludes ==
  \A t \in Threads :
    /\ InCritical(t) =>
         cc.mu.w = t /\ \A u \in Threads \ {t} : ~InCritical(u) /\ ~InResolution(u)
    /\ InResolution(t) => t \in cc.mu.r /\ cc.mu.w = 0

\* The clusters that hold guest data: those an L2 entry of the guest points
\* to.
GuestClusters == 0..((g.size \div ImgCS) - 1)

DataClusters ==
  {entryOffset(getL2(M(FALSE), idx, FALSE).ret) \div ImgCS :
     idx \in {i \in GuestClusters : /\ ~Failed(getL2(M(FALSE), i, FALSE))
                                    /\ ~entryNil(getL2(M(FALSE), i, FALSE).ret)}}

\* A step changed the header, or a byte outside the guest's data clusters.
MetadataChanged ==
  \/ dhdr' # dhdr \/ hdr' # hdr
  \/ \E b \in DOMAIN disk : disk'[b] # disk[b] /\ (b \div ImgCS) \notin DataClusters

MetadataUnderLease == MetadataChanged => cc.mu.w # 0 /\ cc'.actor = cc.mu.w

\* C16: within one Guest, while a goroutine is in the critical section of a
\* write (autoclear, then the writable L2 entry with the refcount, L1 and L2
\* changes it makes) it holds the mutex for writing and no other goroutine
\* is in a critical section or resolving L1/L2 for a read; and a step that
\* changes the header, a refcount, an L1 or an L2 entry is a step of the
\* goroutine that holds the mutex for writing.
LeaseHeld == []LeaseExcludes /\ [][MetadataUnderLease]_vars

\* A writer has its new mapping on the container and still holds the mutex
\* while another goroutine waits for it.
WriterWaits ==
  \E t \in Threads, u \in Threads :
    /\ cc.th[t].pc = "Unlock" /\ cc.th[u].pc \in {"Lock", "RLock"} /\ disk # disk0

\* Goroutine t has returned from a write_at without error.
Wrote(t) == cc.th[t].pc = "done" /\ cc.th[t].op = "w" /\ cc.th[t].err = ""

ClustersOf(t) == Touched(cc.th[t].off, Len(cc.th[t].p))

\* Two write_at calls to distinct guest clusters have both returned success.
BothWrote == Wrote(1) /\ Wrote(2) /\ ClustersOf(1) \cap ClustersOf(2) = {}

\* A read_at of the range goroutine t wrote returns what it wrote.
ReadsBack(t) ==
  /\ ~Failed(guestReadAt(M(FALSE), Len(cc.th[t].p), cc.th[t].off))
  /\ guestReadAt(M(FALSE), Len(cc.th[t].p), cc.th[t].off).data = cc.th[t].p

\* The physical cluster the L2 entry of guest cluster idx holds (-1: none).
PhysicalOf(idx) ==
  IF Failed(getL2(M(FALSE), idx, FALSE)) \/ entryNil(getL2(M(FALSE), idx, FALSE).ret) THEN 0 - 1
  ELSE entryOffset(getL2(M(FALSE), idx, FALSE).ret) \div ImgCS

\* The L2 entries of the clusters the two goroutines wrote hold distinct
\* physical clusters, each with refcount at least 1.
DistinctlyBacked ==
  /\ \A i \in ClustersOf(1) \cup ClustersOf(2) :
       PhysicalOf(i) # 0 - 1 /\ RefcountOf(M(FALSE), PhysicalOf(i)) >= 1
  /\ \A i \in ClustersOf(1), j \in ClustersOf(2) : PhysicalOf(i) # PhysicalOf(j)

\* C17 as stated: after two concurrent write_at calls to distinct guest
\* clusters have both returned success, each cluster reads back the data
\* written to it, and the two L2 entries hold distinct physical cluster
\* offsets, each with refcount at least 1.
WritersIndependent == BothWrote => ReadsBack(1) /\ ReadsBack(2) /\ DistinctlyBacked

\* Every cluster of the request of goroutine t held other data than the
\* request, so that writeCluster wrote it.
Changed(t) == cc.th[t].wrote = ClustersOf(t)

\* C17, amended: after two concurrent write_at calls to distinct guest
\* clusters have both returned success, each cluster reads back the data
\* written to it; and when each call wrote data that differs from what its
\* clusters held, the two L2 entries hold distinct physical cluster
\* offsets, each with refcount at least 1.
ChangingWritersIndependent ==
  BothWrote => /\ ReadsBack(1) /\ ReadsBack(2)
               /\ Changed(1) /\ Changed(2) => DistinctlyBacked

\* Both calls wrote data, and the table of the refcounts or of L1/L2 had
\* clusters allocated for them.
BothChanged == BothWrote /\ Changed(1) /\ Changed(2) /\ disk # disk0

\* The guest bytes a write finds where its segment of guest cluster idx
\* goes: zeros under a nil entry or the zero bit, else the bytes of the
\* cluster the entry points to.
Held(idx) ==
  IF entryNil(Before(idx).l2) \/ entryZero(Before(idx).l2) \/ Before(idx).old = <<>>
  THEN [i \in 1..Len(Before(idx).seg) |-> 0]
  ELSE SubSeq(Before(idx).old, Before(idx).at + 1, Before(idx).at + Len(Before(idx).seg))

\* The last call was a write inside the disk of the bytes the guest held
\* there already.
Identical ==
  /\ last.op = "write" /\ InBounds
  /\ \A idx \in DOMAIN last.pre.cl : Before(idx).ok /\ Before(idx).seg = Held(idx)

\* C31: a write of bytes identical to what the guest holds in the region
\* (zeros over an unallocated or zero-flagged cluster included) succeeds and
\* does nothing: no container write, no header rewrite, no allocation, no
\* change of an L1, L2 or refcount byte, and the guest's mutex is never
\* taken for writing.
SameDataWritesNothing ==
  Identical =>
    /\ last.err = "" /\ last.n = last.len
    /\ last.io = <<>> /\ last.same /\ last.lk = 0
    /\ last.cw = <<>> /\ last.fw = <<>>

\* Identical writes of zeros over a cluster with the zero bit, or of the
\* bytes a cluster shared with a snapshot holds, on an image whose header has
\* unknown autoclear bits.
WroteSameData ==
  /\ Identical /\ last.len > 0 /\ last.pre.unknown # 0
  /\ \E idx \in DOMAIN last.pre.cl :
       \/ entryZero(Before(idx).l2) /\ ~entryNil(Before(idx).l2)
       \/ Shared(idx) /\ ~entryZero(Before(idx).l2)

\* The slot of a parent-slot write lies in the L1 table.
InL1(off) == off >= g.l1Position /\ off < g.l1Position + 8 * hdr.v2.L1Size

\* The parent-slot writes of the last call made for its j-th data write.
SlotsFor(j) ==
  {k \in 1..Len(last.cw) :
     k <= last.dw[j].cws /\ (j > 1 => k > last.dw[j - 1].cws)}

\* C32: within one write call the container writes are ordered: when the
\* header had unknown autoclear bits the header rewrite is the first write of
\* all; for every cluster written, the L1 slot (if the L2 table was allocated
\* or copied) is written before the L2 slot, the L2 slot before the guest's
\* bytes, and the bytes go to the cluster the L2 slot was given.
WritesInOrder ==
  last.op = "write" =>
    /\ last.pre.unknown # 0 /\ last.io # <<>> => last.io[1][1] = 0
    /\ \A k \in 1..Len(last.cw) :
         /\ last.pre.unknown # 0 => last.cw[k].ioAt > 1
         /\ k > 1 => last.cw[k].ioAt > last.cw[k - 1].ioAt
    /\ \A j \in 1..Len(last.dw) :
         /\ last.pre.unknown # 0 => last.dw[j].ioAt > 1
         /\ \A k \in 1..Len(last.cw) :
              IF k <= last.dw[j].cws THEN last.cw[k].ioAt < last.dw[j].ioAt
              ELSE last.cw[k].ioAt > last.dw[j].ioAt
         /\ Cardinality(SlotsFor(j)) <= 2
         /\ \A k \in SlotsFor(j) :
              /\ InL1(last.cw[k].off) <=> (k + 1 \in SlotsFor(j))
              /\ k + 1 \notin SlotsFor(j) =>
                   last.dw[j].off \div ImgCS = last.cw[k].alloc \div ImgCS

\* A write that rewrote the header, then gave the cluster an L2 table and a
\* data cluster, then wrote the guest's bytes.
WroteAllInOrder ==
  /\ last.op = "write" /\ last.err = "" /\ last.pre.unknown # 0
  /\ Len(last.dw) = 1 /\ Len(last.cw) = 2 /\ last.dw[1].cws = 2
  /\ InL1(last.cw[1].off) /\ ~InL1(last.cw[2].off)
  /\ last.dw[1].ioAt = Len(last.io)

\* The L2 entry of guest cluster idx is there to be looked up.
HasL2Word(idx) ==
  /\ Low62(L1Word(idx)) # 0
  /\ InContainer(Low62(L1Word(idx)) + (idx % (ImgCS \div 8)) * 8, 8)

\* An entry the L2 lookup has to reject: the compressed bit is set, or the
\* offset (bit 0, the zero bit, apart) is not a multiple of the cluster
\* size; an entry whose only set bit is the zero bit is neither.
Unacceptable(e) ==
  \/ entryCompressed(e)
  \/ (entryOffset(e) - (e[8] % 2)) % ImgCS # 0

\* C33: a read or a write inside the disk whose first guest cluster has an
\* L2 entry with the compressed bit or a misaligned offset fails, and the
\* container is as it was.
UnacceptableEntryRejected ==
  [][last'.op \in {"read", "write"} /\ last'.len > 0 /\ last'.off + last'.len <= g.size
     /\ HasL2Word(last'.off \div ImgCS) /\ Unacceptable(L2Word(last'.off \div ImgCS))
     => last'.err # "" /\ disk' = disk /\ dhdr' = dhdr]_vars

\* C34: once the goroutine of findFreeClusters has thrown, an allocate that
\* is waiting or is called later returns an error: the process does not end
\* under it, and it returns no cluster.
ScanFailureReported ==
  pl.on /\ pl.S.threw /\ pl.U.op = "allocate" /\ pl.U.uses > pl.S.past =>
    /\ ~pl.crashed
    /\ pl.U.pc = "idle" => pl.U.res = "err"

\* C40: close(p.done) is executed at most once, whatever the order of Stop,
\* Wait, WaitThrow and the failures of the goroutines, and Wait and
\* WaitThrow return only when every goroutine of the pipeline has finished.
DoneClosedOnce ==
  pl.on =>
    /\ pl.closes <= 1
    /\ pl.U.pc = "idle" /\ pl.U.op \in {"Wait", "WaitThrow"} => pl.wait = 0

\* The header a container opened now would have, and the one the container
\* had when it was opened first.
Reopened(dh) ==
  headerOpen(Mach(disk, dh, NilHeader, [l1Position |-> 0, size |-> 0], NoScan, FALSE))

\* The fields of a header that no rewrite changes on purpose.
Kept(h) ==
  [v2 |-> [h.v2 EXCEPT !.RefcountTableOffset = 0, !.RefcountTableClusters = 0],
   v3 |-> [h.v3 EXCEPT !.AutoclearFeatures = 0],
   extraHeader |-> h.extraHeader,
   extensions |-> {h.extensions[i] : i \in 1..Len(h.extensions)}]

\* C35: once the header of a version 2 or version 3 file was rewritten,
\* opening the container again succeeds and gives the header fields the
\* file had (the refcount table and the autoclear mask apart) and the same
\* extensions, by id and bytes.
RewriteRoundTrips ==
  dhdr # dhdr0 /\ ~Failed(Reopened(dhdr0)) =>
    /\ ~Failed(Reopened(dhdr))
    /\ Kept(Reopened(dhdr).hdr) = Kept(Reopened(dhdr0).hdr)

\* The clusters of a table of n bytes at offset off.
ClustersAt(off, n) == IF n <= 0 THEN {} ELSE (off \div ImgCS)..((off + n - 1) \div ImgCS)

\* The guest clusters that have an L2 table, and those of them that have a
\* cluster of their own (an entry with an offset, with or without the zero
\* bit).
WithTable == {idx \in GuestClusters : HasL2Word(idx)}

Backed == {idx \in WithTable : Low62(L2Word(idx)) \div ImgCS # 0}

L2Tables == {Low62(L1Word(idx)) \div ImgCS : idx \in WithTable}

DataOf(idx) == Low62(L2Word(idx)) \div ImgCS

\* The refcount blocks the table in the container points to.
TableEntries == 0..(((ImgCS * hdr.v2.RefcountTableClusters) \div 8) - 1)

RefcountBlocks ==
  {Low62(Bytes(M(FALSE), hdr.v2.RefcountTableOffset + 8 * ti, 8)) \div ImgCS :
     ti \in {t \in TableEntries :
               /\ InContainer(hdr.v2.RefcountTableOffset + 8 * t, 8)
               /\ Low62(Bytes(M(FALSE), hdr.v2.RefcountTableOffset + 8 * t, 8)) # 0}}

Metadata ==
  {0} \cup ClustersAt(g.l1Position, 8 * hdr.v2.L1Size)
      \cup ClustersAt(hdr.v2.RefcountTableOffset, ImgCS * hdr.v2.RefcountTableClusters)
      \cup RefcountBlocks \cup L2Tables

\* C36: after successful guest writes on an image without snapshots, the
\* header cluster, the clusters of the L1 table and of the refcount table,
\* every refcount block, every L2 table and every data cluster an L2 entry
\* points to have a refcount of at least 1; no two guest clusters share a
\* data cluster, no two L1 entries share an L2 table unless they are the
\* same entry, and no data cluster is a metadata cluster.
MetadataConsistent ==
  life \in {"guest", "closed"} /\ okw /\ dhdr0.v2.NbSnapshots = 0 =>
    /\ \A c \in Metadata \cup {DataOf(idx) : idx \in Backed} :
         c < NumClusters /\ RefcountOf(M(FALSE), c) >= 1
    /\ \A i \in Backed, j \in Backed : i # j => DataOf(i) # DataOf(j)
    /\ \A i \in WithTable, j \in WithTable :
         i \div (ImgCS \div 8) # j \div (ImgCS \div 8)
           => Low62(L1Word(i)) # Low62(L1Word(j))
    /\ \A i \in Backed : DataOf(i) \notin Metadata
    /\ Cardinality(L2Tables \cup RefcountBlocks)
         = Cardinality(L2Tables) + Cardinality(RefcountBlocks)

\* Two successful writes, the second of which made the refcount table grow.
WroteThroughGrowth ==
  /\ life = "guest" /\ okw /\ dhdr0.v2.NbSnapshots = 0
  /\ nw = 2 /\ last.op = "write" /\ last.grew > 0 /\ Cardinality(Backed) > 6

\* C37: a successful write_at(buf, off) changes only the guest bytes in
\* [off, off+len): every other byte of the guest disk, in the clusters the
\* write touched and in all others, reads the same before and after it,
\* whatever the mapping of the target cluster was (none, zero-flagged, shared
\* or writable).
WriteKeepsOtherBytes ==
  life = "guest" /\ last.op = "write" /\ last.err = "" /\ last.pre.bytes # <<>> =>
    /\ Len(GuestBytes) = g.size
    /\ \A b \in 1..g.size :
         (b - 1 < last.off \/ b - 1 >= last.off + last.len)
           => GuestBytes[b] = last.pre.bytes[b]

\* A successful write of a part of a cluster that was shared (refcount above
\* one, copied before it is written) and held data outside the part written.
WroteIntoSharedCluster ==
  /\ last.op = "write" /\ last.err = "" /\ GuestBytes # <<>>
  /\ \E idx \in DOMAIN last.pre.cl :
       /\ last.pre.cl[idx].ok /\ last.pre.cl[idx].rc > 1
       /\ Len(last.pre.cl[idx].seg) < ImgCS
       /\ \E i \in 1..ImgCS :
            /\ (i <= last.pre.cl[idx].at \/ i > last.pre.cl[idx].at + Len(last.pre.cl[idx].seg))
            /\ last.pre.cl[idx].old[i] # 0
            /\ GuestBytes[idx * ImgCS + i] = last.pre.cl[idx].old[i]

\* The guest clusters whose L1 entry, or whose L2 entry, is the slot at off.
Under(off) ==
  {idx \in GuestClusters :
     \/ off = g.l1Position + (idx \div (ImgCS \div 8)) * 8
     \/ HasL2Word(idx) /\ off = Low62(L1Word(idx)) + (idx % (ImgCS \div 8)) * 8}

\* What a read of guest cluster idx returns in the current state, the empty
\* sequence when it fails.
ClusterBytes(idx) ==
  LET r == guestReadAt(M(FALSE), ImgCS, idx * ImgCS)
  IN  IF Failed(r) THEN <<>> ELSE r.data

\* C38: when the step that makes an L1 or L2 entry writable fails before the
\* parent slot is written (the allocation fails, or the copy or the zeroing
\* of the new cluster), the slot in the container holds the entry it held,
\* and a read of the guest clusters under that slot returns what a read
\* returned before the write.
FailedCowKeepsEntry ==
  life = "guest" /\ last.op = "write" /\ last.err # "" =>
    \A k \in DOMAIN last.cf :
      /\ InContainer(last.cf[k].off, 8)
      /\ Bytes(M(FALSE), last.cf[k].off, 8) = last.cf[k].old
      /\ last.pre.bytes # <<>> =>
           \A idx \in Under(last.cf[k].off) :
             ClusterBytes(idx) = SubSeq(last.pre.bytes, idx * ImgCS + 1, (idx + 1) * ImgCS)

\* A write to a shared cluster that held data failed because no cluster
\* could be allocated for the copy.
CowAllocationFailed ==
  /\ life = "guest" /\ last.op = "write" /\ last.err # "" /\ last.cf # <<>>
  /\ last.pre.bytes # <<>>
  /\ \E idx \in Under(last.cf[1].off) :
       /\ idx \in DOMAIN last.pre.cl
       /\ hasOffset(last.cf[1].old)
       /\ \E i \in 1..ImgCS : last.pre.bytes[idx * ImgCS + i] # 0

\* C39: with two guests of one container, after writes through either that
\* all succeeded no cluster is in use twice: no two guest clusters have the
\* same data cluster, no two L1 entries the same L2 table, and no data
\* cluster is an L2 table or a refcount block, nor an L2 table a refcount
\* block.
NoClusterSharedTwice ==
  life = "two" /\ okw =>
    /\ \A i \in Backed, j \in Backed : i # j => DataOf(i) # DataOf(j)
    /\ \A i \in WithTable, j \in WithTable :
         i \div (ImgCS \div 8) # j \div (ImgCS \div 8)
           => Low62(L1Word(i)) # Low62(L1Word(j))
    /\ \A i \in Backed : DataOf(i) \notin L2Tables \cup RefcountBlocks
    /\ L2Tables \cap RefcountBlocks = {}

====
